---- MODULE Spec2Model ----
(***************************************************************************)
(* Forwarding-state computation of LEOPath: the shortest-path resolver     *)
(* (network_state/.../shortest_path_link_state_routing) and the            *)
(* topological resolver (network_state/.../topological_routing).          *)
(*                                                                         *)
(* Distances are metres as floats in the source; the model uses integers,  *)
(* with Inf standing for float("inf").  Python indices are 0-based, the    *)
(* positions of TLA+ sequences 1-based: node_to_index is shifted by one.   *)
(***************************************************************************)
EXTENDS Integers, Sequences, FiniteSets, TLC

VARIABLES
    graph_nodes,        \* topology.graph.nodes()
    graph_edges,        \* topology.graph edges, in insertion order: <<u, v, weight>>
    sat_neighbor_to_if, \* topology.sat_neighbor_to_if: (a, b) -> interface of a toward b
    number_isls,        \* Satellite.number_isls of every satellite of the constellation
    gs_in_range,        \* ground_station_satellites_in_range: per GS index, <<distance, sat_id>>*
    pc,                 \* "ready" before the resolver has run, "done" after
    fstate,             \* the mapping returned by the shortest-path resolver
    dist_cache,         \* dist_satellite_to_ground_station of that run
    sixgrupa_addr,      \* Satellite.sixgrupa_addr, for the satellites that have one
    forwarding_table,   \* Satellite.forwarding_table: serialized address -> interface
    heap,               \* the fstate objects the topological resolver has returned
    call,               \* the arguments of the last topological-resolver call
    ret,                \* the object that call returned (a position of heap)
    ncalls,             \* topological-resolver calls so far
    sats_raises,        \* whether topology.get_satellites() raises
    fw_raises,          \* whether nx.floyd_warshall_numpy raises on this graph
    addr_raises,        \* the satellite ids for which
                        \* TopologicalNetworkAddress.from_6grupa raises
    orbital_addr,       \* what TopologicalNetworkAddress.set_address_from_orbital_parameters
                        \* does for each satellite id: the address it returns, or Raised
    forward_state,      \* get_path: (current node, destination) -> next hop
    gp_src,             \* get_path: src
    gp_dst,             \* get_path: dst
    path,               \* get_path: the list path
    current_hop,        \* get_path: current_hop
    gp_pc,              \* get_path: "ready", "loop" (at the while test) or "done"
    gp_ret,             \* get_path: the value returned
    number_of_satellites,     \* constellation_data.number_of_satellites
    list_gsl_interfaces_info, \* records with "id" and "aggregate_max_bandwidth"
    bandwidth_state,    \* the mapping _calculate_bandwidth_state returns
    bw_pc,              \* "ready" before _calculate_bandwidth_state has run, "done" after
    addr_sat_id,        \* the satellite id an address is made for
    addr_trip,          \* that address, its integer form and the address read back
    addr_pc,            \* "ready" before the address was made, "done" after
    dyn_pc,             \* "ready" before the dynamic_state resolver has run, "done" after
    dyn_fstate,         \* the mapping returned by the dynamic_state resolver
    ren_sat,            \* a renaming of the satellite ids
    ren_gs,             \* a renaming of the ground-station ids
    ren_fstate,         \* the mapping the shortest-path resolver returns on the renamed input
    ren_pc,             \* "ready" before the resolver has run on the renamed input, "done" after
    isl_args,           \* generate_plus_grid_isls: n_orbits, n_sats_per_orbit, isl_shift, idx_offset
    list_isls,          \* generate_plus_grid_isls: the list returned
    isl_pc              \* "ready" before generate_plus_grid_isls has run, "done" after

topo_vars == <<sixgrupa_addr, forwarding_table, heap, call, ret, ncalls>>
input_vars == <<graph_nodes, graph_edges, sat_neighbor_to_if, number_isls, gs_in_range, sats_raises, fw_raises, addr_raises, orbital_addr>>
sp_vars == <<pc, fstate, dist_cache>>
gp_vars == <<forward_state, gp_src, gp_dst, path, current_hop, gp_pc, gp_ret>>
bw_vars == <<number_of_satellites, list_gsl_interfaces_info, bandwidth_state, bw_pc>>
addr_vars == <<addr_sat_id, addr_trip, addr_pc>>
dyn_vars == <<dyn_pc, dyn_fstate>>
ren_vars == <<ren_sat, ren_gs, ren_fstate, ren_pc>>
isl_vars == <<isl_args, list_isls, isl_pc>>
\* The variables of the functions that stand apart from the resolvers.
aux_vars == <<gp_vars, bw_vars, addr_vars, dyn_vars, ren_vars, isl_vars>>
vars == <<input_vars, sp_vars, topo_vars, aux_vars>>

-----------------------------------------------------------------------------
(* Bounds of the model and the fixtures the inputs are drawn from.         *)

\* ISL weights are drawn from {1, MaxWeight}.
MaxWeight == 3
\* GSL distances are drawn from {1, MaxGslDist}.
MaxGslDist == 3
\* Visibility entries (GSLs) over all ground stations together.
MaxGSLs == 3
\* Calls of the topological resolver in one run.
MaxCalls == 2

\* Satellites of the constellation: topology.get_satellites(), non-sequential ids.
SatIds == {10, 20, 30}
\* ground_stations, as the list of their ids.
GroundStations == <<100, 200>>
\* The order in which a visibility list names the satellites it holds.
SatScanOrder == <<20, 10, 30>>

Weights == {1, MaxWeight}
GslDists == {1, MaxGslDist}
GsIdx == 1..Len(GroundStations)
GsIdSet == {GroundStations[i] : i \in GsIdx}

-----------------------------------------------------------------------------
(* Values and small helpers.                                               *)

Inf == 1000000
DropSentinel == <<-1, -1, -1>>
EmptyMap == [k \in {} |-> 0]

IsInf(x) == x >= Inf
AddDist(a, b) == IF IsInf(a) \/ IsInf(b) THEN Inf ELSE a + b
MinDist(a, b) == IF b < a THEN b ELSE a

\* dict.get(key, default)
DictGet(d, key, default) == IF key \in DOMAIN d THEN d[key] ELSE default

SetMin(S) == CHOOSE x \in S : \A y \in S : x <= y

\* sorted(<set of ids>)
RECURSIVE SortedIds(_)
SortedIds(S) ==
    IF S = {} THEN <<>> ELSE <<SetMin(S)>> \o SortedIds(S \ {SetMin(S)})

\* A variant that compares the totals only, so that a stable sort keeps tied
\* candidates as the visibility list has them.
TupleLessByTotal(a, b) == a[1] < b[1]

\* Python's order on the tuples (total_dist, sat_id): lexicographic.
TupleLess(a, b) == a[1] < b[1] \/ (a[1] = b[1] /\ a[2] < b[2])

RECURSIVE InsertSorted(_, _)
InsertSorted(s, x) ==
    IF s = <<>> THEN <<x>>
    ELSE IF TupleLess(x, Head(s)) THEN <<x>> \o s
    ELSE <<Head(s)>> \o InsertSorted(Tail(s), x)

\* list.sort() of a list of (total_dist, sat_id): stable, ascending.
RECURSIVE ListSort(_)
ListSort(s) ==
    IF s = <<>> THEN <<>>
    ELSE InsertSorted(ListSort(SubSeq(s, 1, Len(s) - 1)), s[Len(s)])

-----------------------------------------------------------------------------
(* The graph: networkx Graph, adjacency kept in insertion order.           *)

HasEdge(edges, u, v) ==
    \E i \in 1..Len(edges) : {edges[i][1], edges[i][2]} = {u, v}

\* graph.edges[u, v]["weight"]
EdgeWeight(edges, u, v) ==
    LET i == CHOOSE i \in 1..Len(edges) : {edges[i][1], edges[i][2]} = {u, v}
    IN  edges[i][3]

\* graph.neighbors(u): the neighbours of u in the order their edges were added.
RECURSIVE Neighbors(_, _)
Neighbors(edges, u) ==
    IF edges = <<>> THEN <<>>
    ELSE LET e == Head(edges)
             rest == Neighbors(Tail(edges), u)
         IN  IF e[1] = u THEN <<e[2]>> \o rest
             ELSE IF e[2] = u THEN <<e[1]>> \o rest
             ELSE rest

\* graph.subgraph(nodes): the edges with both ends among nodes.
RECURSIVE SubgraphEdges(_, _)
SubgraphEdges(edges, nodes) ==
    IF edges = <<>> THEN <<>>
    ELSE LET e == Head(edges)
             rest == SubgraphEdges(Tail(edges), nodes)
         IN  IF e[1] \in nodes /\ e[2] \in nodes THEN <<e>> \o rest ELSE rest

-----------------------------------------------------------------------------
(* Shortest-path resolver, network_state variant.                          *)

\* Mutant of satellite_node_ids: the filter on satellite ids is left out.
satellite_node_ids_unfiltered(all_satellite_ids, nodes) == SortedIds(nodes)

\* satellite_node_ids: the graph nodes that are satellites of the topology
\* (all_satellite_ids), ascending.
satellite_node_ids(all_satellite_ids, nodes) ==
    SortedIds({n \in nodes : n \in all_satellite_ids})

\* A variant that takes the id itself as the offset into the matrix, wrapped
\* to the size of the matrix.
node_to_index_by_id(nodelist) ==
    [id \in {nodelist[i] : i \in 1..Len(nodelist)} |-> (id % Len(nodelist)) + 1]

\* node_to_index = {node_id: index for index, node_id in enumerate(nodelist)}
node_to_index(nodelist) ==
    [id \in {nodelist[i] : i \in 1..Len(nodelist)} |->
        CHOOSE i \in 1..Len(nodelist) : nodelist[i] = id]

\* One round of nx.floyd_warshall_numpy:
\*   A = np.minimum(A, A[k, :][np.newaxis, :] + A[:, k][:, np.newaxis])
RECURSIVE Relax(_, _, _)
Relax(A, k, n) ==
    IF k > n THEN A
    ELSE Relax([i \in 1..n |-> [j \in 1..n |->
                  MinDist(A[i][j], AddDist(A[i][k], A[k][j]))]], k + 1, n)

\* nx.floyd_warshall_numpy(subgraph, nodelist, weight="weight"): the adjacency
\* matrix with inf for a missing edge and 0 on the diagonal, then one round per node.
floyd_warshall_numpy(edges, nodelist) ==
    LET n == Len(nodelist)
        A0 == [i \in 1..n |-> [j \in 1..n |->
                 IF i = j THEN 0
                 ELSE IF HasEdge(edges, nodelist[i], nodelist[j])
                      THEN EdgeWeight(edges, nodelist[i], nodelist[j])
                      ELSE Inf]]
    IN  Relax(A0, 1, n)

\* The loop of _get_satellite_possibilities, before the sort.
RECURSIVE CollectPossibilities(_, _, _, _)
CollectPossibilities(possible_dst_sats, curr_sat_idx, n2i, dist_matrix) ==
    IF possible_dst_sats = <<>> THEN <<>>
    ELSE LET dist_gs_to_sat_m == Head(possible_dst_sats)[1]
             visible_sat_id == Head(possible_dst_sats)[2]
             rest == CollectPossibilities(Tail(possible_dst_sats), curr_sat_idx,
                                          n2i, dist_matrix)
         IN  IF /\ visible_sat_id \in DOMAIN n2i
                /\ ~IsInf(dist_matrix[curr_sat_idx][n2i[visible_sat_id]])
             THEN <<<<dist_matrix[curr_sat_idx][n2i[visible_sat_id]] + dist_gs_to_sat_m,
                      visible_sat_id>>>> \o rest
             ELSE rest

\* Mutant of get_satellite_possibilities: the sort is left out.
get_satellite_possibilities_unsorted(possible_dst_sats, curr_sat_idx, n2i, dist_matrix) ==
    CollectPossibilities(possible_dst_sats, curr_sat_idx, n2i, dist_matrix)

get_satellite_possibilities(possible_dst_sats, curr_sat_idx, n2i, dist_matrix) ==
    ListSort(CollectPossibilities(possible_dst_sats, curr_sat_idx, n2i, dist_matrix))

\* The loop of _handle_multihop_path over sat_subgraph.neighbors(curr_sat_id);
\* acc = <<next_hop_decision, best_neighbor_dist_m>>.
RECURSIVE MultihopScan(_, _, _, _, _, _, _, _)
MultihopScan(nbrs, curr_sat_id, dst_sat_idx, sub_edges, n2i, dist_matrix, ifmap, acc) ==
    IF nbrs = <<>> THEN acc
    ELSE LET neighbor_id == Head(nbrs)
             link_weight == EdgeWeight(sub_edges, curr_sat_id, neighbor_id)
             dist_neighbor_to_dst_sat == dist_matrix[n2i[neighbor_id]][dst_sat_idx]
             distance_m == link_weight + dist_neighbor_to_dst_sat
             take == /\ neighbor_id \in DOMAIN n2i
                     /\ ~IsInf(dist_neighbor_to_dst_sat)
                     /\ distance_m < acc[2]
             next == IF take
                     THEN <<<<neighbor_id,
                              DictGet(ifmap, <<curr_sat_id, neighbor_id>>, -1),
                              DictGet(ifmap, <<neighbor_id, curr_sat_id>>, -1)>>,
                            distance_m>>
                     ELSE acc
         IN  MultihopScan(Tail(nbrs), curr_sat_id, dst_sat_idx, sub_edges, n2i,
                          dist_matrix, ifmap, next)

\* Mutant of handle_multihop_path: local and remote interface swapped.
handle_multihop_path_swapped(curr_sat_id, dst_sat_idx, sub_edges, n2i, dist_matrix, ifmap) ==
    LET d == MultihopScan(Neighbors(sub_edges, curr_sat_id), curr_sat_id, dst_sat_idx,
                          sub_edges, n2i, dist_matrix, ifmap, <<DropSentinel, Inf>>)[1]
    IN  <<d[1], d[3], d[2]>>

\* A variant that takes the first neighbour from which the exit can be reached,
\* whatever the distance.
handle_multihop_path_first_reachable(curr_sat_id, dst_sat_idx, sub_edges, n2i, dist_matrix, ifmap) ==
    LET nbrs == Neighbors(sub_edges, curr_sat_id)
        ok == {i \in 1..Len(nbrs) : ~IsInf(dist_matrix[n2i[nbrs[i]]][dst_sat_idx])}
    IN  IF ok = {} THEN DropSentinel
        ELSE <<nbrs[SetMin(ok)],
               DictGet(ifmap, <<curr_sat_id, nbrs[SetMin(ok)]>>, -1),
               DictGet(ifmap, <<nbrs[SetMin(ok)], curr_sat_id>>, -1)>>

handle_multihop_path(curr_sat_id, dst_sat_idx, sub_edges, n2i, dist_matrix, ifmap) ==
    MultihopScan(Neighbors(sub_edges, curr_sat_id), curr_sat_id, dst_sat_idx,
                 sub_edges, n2i, dist_matrix, ifmap, <<DropSentinel, Inf>>)[1]

\* Mutant of handle_direct_gs_path: the GSL interface counted from the last ISL.
handle_direct_gs_path_off_by_one(dst_sat_id, dst_gs_node_id, isl_count) ==
    IF dst_sat_id \in DOMAIN isl_count
    THEN <<dst_gs_node_id, isl_count[dst_sat_id] - 1, 0>>
    ELSE DropSentinel

\* topology.get_satellite(dst_sat_id) raises KeyError for an unknown id.
handle_direct_gs_path(dst_sat_id, dst_gs_node_id, isl_count) ==
    IF dst_sat_id \in DOMAIN isl_count
    THEN <<dst_gs_node_id, isl_count[dst_sat_id], 0>>
    ELSE DropSentinel

\* _get_next_hop_decision: <<next_hop_decision, distance_to_ground_station_m>>
get_next_hop_decision(possible_sat_gs_routes, curr_sat_id, n2i, sub_edges, dist_matrix, ifmap, isl_count, dst_gs_node_id) ==
    IF possible_sat_gs_routes = <<>> THEN <<DropSentinel, Inf>>
    ELSE LET distance_to_ground_station_m == possible_sat_gs_routes[1][1]
             dst_sat_id == possible_sat_gs_routes[1][2]
         IN  IF dst_sat_id \notin DOMAIN n2i
             THEN <<DropSentinel, distance_to_ground_station_m>>
             ELSE IF curr_sat_id # dst_sat_id
             THEN <<handle_multihop_path(curr_sat_id, n2i[dst_sat_id], sub_edges,
                                         n2i, dist_matrix, ifmap),
                    distance_to_ground_station_m>>
             ELSE <<handle_direct_gs_path(dst_sat_id, dst_gs_node_id, isl_count),
                    distance_to_ground_station_m>>

\* Mutant of calculate_sat_to_gs_fstate: a pair without a candidate gets no entry.
calculate_sat_to_gs_fstate_skipping(ground_stations, in_range, nodelist, n2i, sub_edges, dist_matrix, ifmap, isl_count) ==
    LET gidx(id) == CHOOSE g \in 1..Len(ground_stations) : ground_stations[g] = id
        poss(k) == get_satellite_possibilities(in_range[gidx(k[2])], n2i[k[1]], n2i,
                                               dist_matrix)
        keys == {k \in {<<nodelist[x[1]], ground_stations[x[2]]>> :
                           x \in {y \in (1..Len(nodelist)) \X (1..Len(ground_stations)) :
                                     /\ nodelist[y[1]] \in DOMAIN isl_count
                                     /\ y[2] <= Len(in_range)}} :
                    poss(k) # <<>>}
    IN  [k \in keys |->
            get_next_hop_decision(poss(k), k[1], n2i, sub_edges, dist_matrix, ifmap,
                                  isl_count, k[2])]

\* _calculate_sat_to_gs_fstate: for every satellite of nodelist known to the
\* topology and every ground station whose index the visibility list covers, the
\* pair <<next_hop_decision, distance>>.  The keys of the two loops are pairwise
\* distinct (distinct ids), so the order of the writes does not matter.
calculate_sat_to_gs_fstate(ground_stations, in_range, nodelist, n2i, sub_edges, dist_matrix, ifmap, isl_count) ==
    LET keys == {<<nodelist[i], ground_stations[g]>> :
                    <<i, g>> \in {x \in (1..Len(nodelist)) \X (1..Len(ground_stations)) :
                                     /\ nodelist[x[1]] \in DOMAIN isl_count
                                     /\ x[2] <= Len(in_range)}}
        gidx(id) == CHOOSE g \in 1..Len(ground_stations) : ground_stations[g] = id
    IN  [k \in keys |->
            get_next_hop_decision(
                get_satellite_possibilities(in_range[gidx(k[2])], n2i[k[1]], n2i,
                                            dist_matrix),
                k[1], n2i, sub_edges, dist_matrix, ifmap, isl_count, k[2])]

\* The candidate loop of _calculate_gs_to_gs_fstate, before the sort.
RECURSIVE CollectEntries(_, _, _, _)
CollectEntries(possible_src_sats, dst_gs_node_id, n2i, dist_sat_gs) ==
    IF possible_src_sats = <<>> THEN <<>>
    ELSE LET dist_gs_to_sat_m == Head(possible_src_sats)[1]
             entry_sat_id == Head(possible_src_sats)[2]
             dist_entry_sat_to_dst_gs ==
                 DictGet(dist_sat_gs, <<entry_sat_id, dst_gs_node_id>>, Inf)
             rest == CollectEntries(Tail(possible_src_sats), dst_gs_node_id, n2i,
                                    dist_sat_gs)
         IN  IF entry_sat_id \in DOMAIN n2i /\ ~IsInf(dist_entry_sat_to_dst_gs)
             THEN <<<<dist_gs_to_sat_m + dist_entry_sat_to_dst_gs, entry_sat_id>>>>
                  \o rest
             ELSE rest

\* Mutant of gs_to_gs_decision: the sort is left out.
gs_to_gs_decision_unsorted(possible_src_sats, dst_gs_node_id, n2i, dist_sat_gs, isl_count) ==
    LET possibilities ==
            CollectEntries(possible_src_sats, dst_gs_node_id, n2i, dist_sat_gs)
    IN  IF possibilities = <<>> THEN DropSentinel
        ELSE <<possibilities[1][2], 0, isl_count[possibilities[1][2]]>>

\* A variant that enters at the first visible satellite, whether or not it has a
\* route to the destination.
gs_to_gs_decision_first_visible(possible_src_sats, dst_gs_node_id, n2i, dist_sat_gs, isl_count) ==
    IF possible_src_sats = <<>> THEN DropSentinel
    ELSE LET src_sat_id == possible_src_sats[1][2]
         IN  IF src_sat_id \in DOMAIN isl_count
             THEN <<src_sat_id, 0, isl_count[src_sat_id]>>
             ELSE DropSentinel

\* The decision of _calculate_gs_to_gs_fstate for one ordered pair.
gs_to_gs_decision(possible_src_sats, dst_gs_node_id, n2i, dist_sat_gs, isl_count) ==
    LET possibilities ==
            ListSort(CollectEntries(possible_src_sats, dst_gs_node_id, n2i, dist_sat_gs))
    IN  IF possibilities = <<>> THEN DropSentinel
        ELSE LET src_sat_id == possibilities[1][2]
             IN  IF src_sat_id \in DOMAIN isl_count
                 THEN <<src_sat_id, 0, isl_count[src_sat_id]>>
                 ELSE DropSentinel

\* Mutant of calculate_gs_to_gs_fstate: the pair (G, G) is not skipped.
calculate_gs_to_gs_fstate_with_self(ground_stations, in_range, n2i, dist_sat_gs, isl_count) ==
    LET sidx(id) == CHOOSE g \in 1..Len(ground_stations) : ground_stations[g] = id
    IN  [k \in {<<ground_stations[x[1]], ground_stations[x[2]]>> :
                   x \in {y \in (1..Len(ground_stations)) \X (1..Len(ground_stations)) :
                             y[1] <= Len(in_range)}} |->
            gs_to_gs_decision(in_range[sidx(k[1])], k[2], n2i, dist_sat_gs, isl_count)]

\* A variant that gives a source beyond the visibility list the sentinel instead
\* of skipping it.
calculate_gs_to_gs_fstate_no_skip(ground_stations, in_range, n2i, dist_sat_gs, isl_count) ==
    LET idx == {x \in (1..Len(ground_stations)) \X (1..Len(ground_stations)) :
                   x[1] # x[2]}
        keys == {<<ground_stations[x[1]], ground_stations[x[2]]>> : x \in idx}
        sidx(id) == CHOOSE g \in 1..Len(ground_stations) : ground_stations[g] = id
    IN  [k \in keys |->
            IF sidx(k[1]) <= Len(in_range)
            THEN gs_to_gs_decision(in_range[sidx(k[1])], k[2], n2i, dist_sat_gs, isl_count)
            ELSE DropSentinel]

\* _calculate_gs_to_gs_fstate: an entry for every ordered pair of distinct
\* positions of ground_stations whose source index the visibility list covers.
calculate_gs_to_gs_fstate(ground_stations, in_range, n2i, dist_sat_gs, isl_count) ==
    LET idx == {x \in (1..Len(ground_stations)) \X (1..Len(ground_stations)) :
                   x[1] # x[2] /\ x[1] <= Len(in_range)}
        keys == {<<ground_stations[x[1]], ground_stations[x[2]]>> : x \in idx}
        sidx(id) == CHOOSE g \in 1..Len(ground_stations) : ground_stations[g] = id
    IN  [k \in keys |->
            gs_to_gs_decision(in_range[sidx(k[1])], k[2], n2i, dist_sat_gs, isl_count)]

\* A variant without the return for a graph that has no satellite node.
calculate_fstate_shortest_path_no_empty_check(nodes, edges, ifmap, isl_count, ground_stations, in_range) ==
    LET nodelist == satellite_node_ids(DOMAIN isl_count, nodes)
        n2i == node_to_index(nodelist)
        sub_edges == SubgraphEdges(edges, {nodelist[i] : i \in 1..Len(nodelist)})
        dist_matrix == floyd_warshall_numpy(sub_edges, nodelist)
        sat_gs == calculate_sat_to_gs_fstate(ground_stations, in_range, nodelist, n2i,
                                             sub_edges, dist_matrix, ifmap, isl_count)
        sat_fstate == [k \in DOMAIN sat_gs |-> sat_gs[k][1]]
        dist_sat_gs == [k \in DOMAIN sat_gs |-> sat_gs[k][2]]
        gs_fstate == calculate_gs_to_gs_fstate(ground_stations, in_range, n2i,
                                               dist_sat_gs, isl_count)
    IN  [fstate |-> [k \in DOMAIN sat_fstate \cup DOMAIN gs_fstate |->
                        IF k \in DOMAIN gs_fstate THEN gs_fstate[k]
                        ELSE sat_fstate[k]],
         dist |-> dist_sat_gs]

\* calculate_fstate_shortest_path_object_no_gs_relay: the returned fstate and the
\* sat-to-GS distance cache it was computed from.
calculate_fstate_shortest_path(nodes, edges, ifmap, isl_count, ground_stations, in_range) ==
    LET nodelist == satellite_node_ids(DOMAIN isl_count, nodes)
        n2i == node_to_index(nodelist)
        sub_edges == SubgraphEdges(edges, {nodelist[i] : i \in 1..Len(nodelist)})
        dist_matrix == floyd_warshall_numpy(sub_edges, nodelist)
        sat_gs == calculate_sat_to_gs_fstate(ground_stations, in_range, nodelist, n2i,
                                             sub_edges, dist_matrix, ifmap, isl_count)
        sat_fstate == [k \in DOMAIN sat_gs |-> sat_gs[k][1]]
        dist_sat_gs == [k \in DOMAIN sat_gs |-> sat_gs[k][2]]
        gs_fstate == calculate_gs_to_gs_fstate(ground_stations, in_range, n2i,
                                               dist_sat_gs, isl_count)
    IN  IF nodelist = <<>>
        THEN [fstate |-> EmptyMap, dist |-> EmptyMap]
        ELSE [fstate |-> [k \in DOMAIN sat_fstate \cup DOMAIN gs_fstate |->
                             IF k \in DOMAIN gs_fstate THEN gs_fstate[k]
                             ELSE sat_fstate[k]],
              dist |-> dist_sat_gs]

\* A variant that goes on to the ground-station pairs when the computation raises.
calculate_fstate_shortest_path_object_no_gs_relay_partial(get_satellites_raises, raises, nodes, edges, ifmap, isl_count, ground_stations, in_range) ==
    IF get_satellites_raises
    THEN [fstate |-> EmptyMap, dist |-> EmptyMap]
    ELSE IF satellite_node_ids(DOMAIN isl_count, nodes) # <<>> /\ raises
    THEN [fstate |-> calculate_gs_to_gs_fstate(ground_stations, in_range, EmptyMap,
                                               EmptyMap, isl_count),
          dist |-> EmptyMap]
    ELSE calculate_fstate_shortest_path(nodes, edges, ifmap, isl_count, ground_stations,
                                        in_range)

\* calculate_fstate_shortest_path_object_no_gs_relay with its try/except around
\* topology.get_satellites() and around nx.floyd_warshall_numpy: {} when
\* get_satellites raises, and {} when the graph has a satellite node and the
\* all-pairs computation raises.
calculate_fstate_shortest_path_object_no_gs_relay(get_satellites_raises, raises, nodes, edges, ifmap, isl_count, ground_stations, in_range) ==
    IF get_satellites_raises
    THEN [fstate |-> EmptyMap, dist |-> EmptyMap]
    ELSE IF satellite_node_ids(DOMAIN isl_count, nodes) # <<>> /\ raises
    THEN [fstate |-> EmptyMap, dist |-> EmptyMap]
    ELSE calculate_fstate_shortest_path(nodes, edges, ifmap, isl_count, ground_stations,
                                        in_range)

\* dynamic_state, satellites to ground stations: the loop over the visibility
\* list of the destination that collects (total_dist, visible_sat_id).
RECURSIVE dynamic_exit_possibilities(_, _, _, _)
dynamic_exit_possibilities(possible_dst_sats, curr_sat_idx, n2i, dist_matrix) ==
    IF possible_dst_sats = <<>> THEN <<>>
    ELSE LET dist_gs_to_sat_m == Head(possible_dst_sats)[1]
             visible_sat_id == Head(possible_dst_sats)[2]
             rest == dynamic_exit_possibilities(Tail(possible_dst_sats), curr_sat_idx,
                                                n2i, dist_matrix)
         IN  IF visible_sat_id \notin DOMAIN n2i THEN rest
             ELSE IF IsInf(dist_matrix[curr_sat_idx][n2i[visible_sat_id]]) THEN rest
             ELSE <<<<dist_matrix[curr_sat_idx][n2i[visible_sat_id]] + dist_gs_to_sat_m,
                      visible_sat_id>>>> \o rest

\* dynamic_state: the loop over sat_graph.neighbors(curr_sat_id);
\* acc = <<next_hop_decision, best_neighbor_dist_m>>.
RECURSIVE dynamic_neighbor_loop(_, _, _, _, _, _, _, _)
dynamic_neighbor_loop(nbrs, curr_sat_id, dst_sat_idx, edges, n2i, dist_matrix, ifmap, acc) ==
    IF nbrs = <<>> THEN acc
    ELSE LET neighbor_id == Head(nbrs)
             next ==
                 IF neighbor_id \notin DOMAIN n2i THEN acc
                 ELSE LET link_weight == EdgeWeight(edges, curr_sat_id, neighbor_id)
                          dist_neighbor_to_dst_sat ==
                              dist_matrix[n2i[neighbor_id]][dst_sat_idx]
                      IN  IF IsInf(dist_neighbor_to_dst_sat) THEN acc
                          ELSE IF link_weight + dist_neighbor_to_dst_sat < acc[2]
                          THEN <<<<neighbor_id,
                                   DictGet(ifmap, <<curr_sat_id, neighbor_id>>, -1),
                                   DictGet(ifmap, <<neighbor_id, curr_sat_id>>, -1)>>,
                                 link_weight + dist_neighbor_to_dst_sat>>
                          ELSE acc
         IN  dynamic_neighbor_loop(Tail(nbrs), curr_sat_id, dst_sat_idx, edges, n2i,
                                   dist_matrix, ifmap, next)

\* dynamic_state: what one round of the inner loop writes for (curr_sat_id,
\* dst_gs_node_id), as <<next_hop_decision, distance_to_ground_station_m>>.
dynamic_sat_to_gs_entry(possible_dst_sats, curr_sat_id, dst_gs_node_id, edges, n2i, dist_matrix, ifmap, isl_count) ==
    LET possibilities ==
            ListSort(dynamic_exit_possibilities(possible_dst_sats, n2i[curr_sat_id],
                                                n2i, dist_matrix))
    IN  IF possibilities = <<>> THEN <<DropSentinel, Inf>>
        ELSE LET distance_to_ground_station_m == possibilities[1][1]
                 dst_sat_id == possibilities[1][2]
             IN  IF curr_sat_id # dst_sat_id
                 THEN <<dynamic_neighbor_loop(Neighbors(edges, curr_sat_id), curr_sat_id,
                            n2i[dst_sat_id], edges, n2i, dist_matrix, ifmap,
                            <<DropSentinel, Inf>>)[1],
                        distance_to_ground_station_m>>
                 ELSE IF dst_sat_id \in DOMAIN isl_count
                 THEN <<<<dst_gs_node_id, isl_count[dst_sat_id], 0>>,
                        distance_to_ground_station_m>>
                 ELSE <<DropSentinel, distance_to_ground_station_m>>

\* dynamic_state, ground stations to ground stations: the loop over the
\* visibility list of the source that collects (total_dist, entry_sat_id).
RECURSIVE dynamic_entry_possibilities(_, _, _, _)
dynamic_entry_possibilities(possible_src_sats, dst_gs_node_id, n2i, dist_sat_gs) ==
    IF possible_src_sats = <<>> THEN <<>>
    ELSE LET dist_gs_to_sat_m == Head(possible_src_sats)[1]
             entry_sat_id == Head(possible_src_sats)[2]
             rest == dynamic_entry_possibilities(Tail(possible_src_sats),
                                                 dst_gs_node_id, n2i, dist_sat_gs)
         IN  IF entry_sat_id \notin DOMAIN n2i THEN rest
             ELSE IF IsInf(DictGet(dist_sat_gs, <<entry_sat_id, dst_gs_node_id>>, Inf))
             THEN rest
             ELSE <<<<dist_gs_to_sat_m + dist_sat_gs[<<entry_sat_id, dst_gs_node_id>>],
                      entry_sat_id>>>> \o rest

\* A variant that takes the first entry satellite of the list as it stands.
dynamic_gs_to_gs_entry_unsorted(possible_src_sats, dst_gs_node_id, n2i, dist_sat_gs, isl_count) ==
    LET possibilities ==
            dynamic_entry_possibilities(possible_src_sats, dst_gs_node_id, n2i,
                                        dist_sat_gs)
    IN  IF possibilities = <<>> THEN DropSentinel
        ELSE IF possibilities[1][2] \in DOMAIN isl_count
        THEN <<possibilities[1][2], 0, isl_count[possibilities[1][2]]>>
        ELSE DropSentinel

\* dynamic_state: what one round of the loop over pairs of ground stations writes.
dynamic_gs_to_gs_entry(possible_src_sats, dst_gs_node_id, n2i, dist_sat_gs, isl_count) ==
    LET possibilities ==
            ListSort(dynamic_entry_possibilities(possible_src_sats, dst_gs_node_id,
                                                 n2i, dist_sat_gs))
    IN  IF possibilities = <<>> THEN DropSentinel
        ELSE IF possibilities[1][2] \in DOMAIN isl_count
        THEN <<possibilities[1][2], 0, isl_count[possibilities[1][2]]>>
        ELSE DropSentinel

\* calculate_fstate_shortest_path_object_no_gs_relay of dynamic_state: one function
\* over all the nodes of the graph, of which those without a satellite object are
\* passed over as sources; {} for a graph without nodes or a computation that
\* raises.
dynamic_calculate_fstate(raises, nodes, edges, ifmap, isl_count, ground_stations, in_range) ==
    LET nodelist == SortedIds(nodes)
        n2i == [id \in nodes |-> CHOOSE i \in 1..Len(nodelist) : nodelist[i] = id]
        gs_pos == 1..Len(ground_stations)
        sat_keys == {x \in (1..Len(nodelist)) \X gs_pos :
                        nodelist[x[1]] \in DOMAIN isl_count /\ x[2] <= Len(in_range)}
        gs_keys == {x \in gs_pos \X gs_pos : x[1] # x[2] /\ x[1] <= Len(in_range)}
    IN  IF nodelist = <<>> \/ raises THEN EmptyMap
        ELSE CHOOSE f \in UNION {UNION {
                 {[k \in {<<nodelist[x[1]], ground_stations[x[2]]>> : x \in sat_keys}
                         \cup {<<ground_stations[x[1]], ground_stations[x[2]]>> :
                                  x \in gs_keys} |->
                      IF k \in DOMAIN sat_gs
                      THEN sat_gs[k][1]
                      ELSE dynamic_gs_to_gs_entry(
                               in_range[CHOOSE g \in gs_pos : ground_stations[g] = k[1]],
                               k[2], n2i, [q \in DOMAIN sat_gs |-> sat_gs[q][2]],
                               isl_count)]} :
                 sat_gs \in {[k \in {<<nodelist[x[1]], ground_stations[x[2]]>> :
                                        x \in sat_keys} |->
                     dynamic_sat_to_gs_entry(
                         in_range[CHOOSE g \in gs_pos : ground_stations[g] = k[2]],
                         k[1], k[2], edges, n2i, dist_matrix, ifmap, isl_count)]}} :
                 dist_matrix \in {floyd_warshall_numpy(edges, nodelist)}} : TRUE

-----------------------------------------------------------------------------
(* TopologicalNetworkAddress: a 6G-RUPA address and its integer form.      *)
(* A single-shell scheme: shell 0, the satellite's id as its position in   *)
(* the shell, subnet 0, and the satellite/ground-station discriminator.    *)

\* Positions per shell and subnets per position in the integer form.
NodeRange == 1024
SubnetRange == 256

from_6grupa(sat_id) ==
    [shell_id |-> 0, node_index |-> sat_id, subnet_index |-> 0, is_satellite |-> TRUE]

\* A variant that leaves the satellite/ground-station discriminator out of the
\* integer form.
to_integer_without_discriminator(addr) ==
    ((addr.shell_id * NodeRange + addr.node_index) * SubnetRange + addr.subnet_index) * 2

to_integer(addr) ==
    ((addr.shell_id * NodeRange + addr.node_index) * SubnetRange + addr.subnet_index) * 2
        + (IF addr.is_satellite THEN 1 ELSE 0)

from_integer(n) ==
    [shell_id |-> (n \div (2 * SubnetRange)) \div NodeRange,
     node_index |-> (n \div (2 * SubnetRange)) % NodeRange,
     subnet_index |-> (n \div 2) % SubnetRange,
     is_satellite |-> (n % 2 = 1)]

\* None, where an address is expected.
NoAddress == [is_none |-> TRUE]

\* The call has raised an exception.
Raised == [raised |-> TRUE]

\* TopologicalNetworkAddress.set_address_from_orbital_parameters(sat_id), the call
\* of Satellite.get_6grupa_addr_from.  It is another constructor than from_6grupa;
\* its code is not in the repository and nothing else says what it returns for a
\* satellite id, so what it does is an input: orbital[sat_id] is the address it
\* returns, or Raised.
set_address_from_orbital_parameters(orbital, sat_id) == orbital[sat_id]

\* What set_address_from_orbital_parameters can do for the satellite ids: raise,
\* return the address from_6grupa gives that id, or return the address from_6grupa
\* gives another id.
OrbitalOutcomes == [SatIds -> {Raised} \cup {from_6grupa(s) : s \in SatIds}]

\* A sample of them: the constructor agrees with from_6grupa; raises for every
\* id; raises for satellite 20 only; returns one address for every id; returns
\* for every id the address from_6grupa gives another id.
OrbitalChoices ==
    {[s \in SatIds |-> from_6grupa(s)],
     [s \in SatIds |-> Raised],
     [s \in SatIds |-> IF s = 20 THEN Raised ELSE from_6grupa(s)],
     [s \in SatIds |-> from_6grupa(10)],
     [s \in SatIds |-> from_6grupa(IF s = 10 THEN 20 ELSE IF s = 20 THEN 30 ELSE 10)]}

\* from_6grupa raises for no id and set_address_from_orbital_parameters returns
\* what from_6grupa returns: the value of these inputs in the specifications that
\* do not look at the forwarding tables.
ConstructorsAgree ==
    /\ addr_raises = {}
    /\ orbital_addr = [s \in SatIds |-> from_6grupa(s)]

\* Satellite.get_6grupa_addr_from(neighbor_satellite_id): what
\* set_address_from_orbital_parameters returns for the neighbour's id, or None
\* when it raises.
get_6grupa_addr_from(orbital, neighbor_satellite_id) ==
    IF set_address_from_orbital_parameters(orbital, neighbor_satellite_id) = Raised
    THEN NoAddress
    ELSE set_address_from_orbital_parameters(orbital, neighbor_satellite_id)

-----------------------------------------------------------------------------
(* Topological resolver.                                                   *)

\* _set_sixgrupa_addresses_to_all_nodes: every satellite of the topology is given
\* its address; a satellite for which from_6grupa raises (its id is in raises)
\* keeps what it had.
set_sixgrupa_addresses_to_all_nodes(raises, sats, addrs) ==
    [s \in (sats \ raises) \cup DOMAIN addrs |->
        IF s \in sats \ raises THEN from_6grupa(s) ELSE addrs[s]]

\* The inner loop of _fill_forwarding_tables_in_every_satellite for one satellite:
\* an entry is written when get_6grupa_addr_from returns an address for the
\* neighbour and the interface map has the interface toward it; its key is the
\* integer form of that address.
RECURSIVE FillTable(_, _, _, _, _)
FillTable(orbital, nbrs, satellite_id, ifmap, table) ==
    IF nbrs = <<>> THEN table
    ELSE LET neighbor_id == Head(nbrs)
             neighbor_address == get_6grupa_addr_from(orbital, neighbor_id)
         IN  FillTable(orbital, Tail(nbrs), satellite_id, ifmap,
                 IF /\ neighbor_address # NoAddress
                    /\ <<satellite_id, neighbor_id>> \in DOMAIN ifmap
                 THEN [k \in DOMAIN table \cup {to_integer(neighbor_address)} |->
                          IF k = to_integer(neighbor_address)
                          THEN ifmap[<<satellite_id, neighbor_id>>]
                          ELSE table[k]]
                 ELSE table)

\* A variant that records the neighbour's interface instead of the local one.
RECURSIVE FillTableRemote(_, _, _, _, _)
FillTableRemote(orbital, nbrs, satellite_id, ifmap, table) ==
    IF nbrs = <<>> THEN table
    ELSE LET neighbor_id == Head(nbrs)
             neighbor_address == get_6grupa_addr_from(orbital, neighbor_id)
         IN  FillTableRemote(orbital, Tail(nbrs), satellite_id, ifmap,
                 IF /\ neighbor_address # NoAddress
                    /\ <<neighbor_id, satellite_id>> \in DOMAIN ifmap
                 THEN [k \in DOMAIN table \cup {to_integer(neighbor_address)} |->
                          IF k = to_integer(neighbor_address)
                          THEN ifmap[<<neighbor_id, satellite_id>>]
                          ELSE table[k]]
                 ELSE table)

fill_forwarding_tables_in_every_satellite_remote(orbital, nodelist, sub_edges, ifmap, tables) ==
    [s \in DOMAIN tables |->
        IF s \in {nodelist[i] : i \in 1..Len(nodelist)}
        THEN FillTableRemote(orbital, Neighbors(sub_edges, s), s, ifmap, tables[s])
        ELSE tables[s]]

\* _fill_forwarding_tables_in_every_satellite
fill_forwarding_tables_in_every_satellite(orbital, nodelist, sub_edges, ifmap, tables) ==
    [s \in DOMAIN tables |->
        IF s \in {nodelist[i] : i \in 1..Len(nodelist)}
        THEN FillTable(orbital, Neighbors(sub_edges, s), s, ifmap, tables[s])
        ELSE tables[s]]

\* _get_satellite_possibilities of the topological resolver, with a distance matrix.
topo_get_satellite_possibilities(possible_dst_sats, curr_sat_idx, n2i, dist_matrix) ==
    IF possible_dst_sats = <<>> THEN <<>>
    ELSE ListSort(CollectPossibilities(possible_dst_sats, curr_sat_idx, n2i, dist_matrix))

\* The nodes path[1] can be for path = nx.shortest_path(sat_subgraph, curr, dst,
\* weight="weight"): the neighbours of curr that start a minimum-weight path.
\* networkx does not say which of several minimum-weight paths it returns.
FirstHops(curr_sat_id, dst_sat_id, sub_edges, n2i, dist_matrix) ==
    {h \in DOMAIN n2i :
        /\ HasEdge(sub_edges, curr_sat_id, h)
        /\ ~IsInf(dist_matrix[n2i[h]][n2i[dst_sat_id]])
        /\ EdgeWeight(sub_edges, curr_sat_id, h) + dist_matrix[n2i[h]][n2i[dst_sat_id]]
              = dist_matrix[n2i[curr_sat_id]][n2i[dst_sat_id]]}

NoDecision == <<"NONE">>

\* A variant that answers with the interface of the neighbour's end of the ISL.
topo_get_next_hop_decision_remote(possibilities, curr_sat_id, hop, ifmap, dst_gs_node_id) ==
    IF possibilities = <<>> THEN NoDecision
    ELSE IF curr_sat_id = possibilities[1][2] THEN <<"GSL", dst_gs_node_id>>
    ELSE IF <<hop, curr_sat_id>> \in DOMAIN ifmap
         THEN <<"IF", ifmap[<<hop, curr_sat_id>>]>>
         ELSE NoDecision

\* A variant that answers with the drop sentinel where there is no route.
topo_get_next_hop_decision_sentinel(possibilities, curr_sat_id, hop, ifmap, dst_gs_node_id) ==
    IF possibilities = <<>> THEN DropSentinel
    ELSE IF curr_sat_id = possibilities[1][2] THEN <<"GSL", dst_gs_node_id>>
    ELSE IF <<curr_sat_id, hop>> \in DOMAIN ifmap
         THEN <<"IF", ifmap[<<curr_sat_id, hop>>]>>
         ELSE NoDecision

\* _get_next_hop_decision of the topological resolver, given the first hop hop of
\* the shortest path: ("GSL", gs), the interface toward hop, or None.
topo_get_next_hop_decision(possibilities, curr_sat_id, hop, ifmap, dst_gs_node_id) ==
    IF possibilities = <<>> THEN NoDecision
    ELSE IF curr_sat_id = possibilities[1][2] THEN <<"GSL", dst_gs_node_id>>
    ELSE IF <<curr_sat_id, hop>> \in DOMAIN ifmap
         THEN <<"IF", ifmap[<<curr_sat_id, hop>>]>>
         ELSE NoDecision

\* _calculate_sat_to_gs_fstate of the topological resolver: the mappings it can
\* leave in fstate, one per choice of shortest path for the multi-hop pairs.
topo_calculate_sat_to_gs_fstate(ground_stations, in_range, nodelist, n2i, sub_edges, ifmap, isl_count) ==
    LET keys == {<<nodelist[x[1]], ground_stations[x[2]]>> :
                    x \in {y \in (1..Len(nodelist)) \X (1..Len(ground_stations)) :
                              /\ nodelist[y[1]] \in DOMAIN isl_count
                              /\ y[2] <= Len(in_range)}}
        gidx(id) == CHOOSE g \in 1..Len(ground_stations) : ground_stations[g] = id
        \* The mappings for one distance matrix and the possibilities of every pair.
        results(dist_matrix, poss) ==
            LET multihop == {k \in keys : poss[k] # <<>> /\ poss[k][1][2] # k[1]}
                hops == {c \in [multihop -> DOMAIN n2i] :
                            \A k \in multihop :
                                c[k] \in FirstHops(k[1], poss[k][1][2], sub_edges,
                                                   n2i, dist_matrix)}
                decision(c, k) ==
                    topo_get_next_hop_decision(poss[k], k[1],
                        IF k \in multihop THEN c[k] ELSE k[1], ifmap, k[2])
            IN  {[k \in {q \in keys : decision(c, q) # NoDecision} |-> decision(c, k)] :
                    c \in hops}
    IN  UNION {UNION {results(dist_matrix, poss) :
                   poss \in {[k \in keys |->
                       topo_get_satellite_possibilities(in_range[gidx(k[2])], n2i[k[1]],
                                                        n2i, dist_matrix)]}} :
               dist_matrix \in {floyd_warshall_numpy(sub_edges, nodelist)}}

\* The loop of _get_satellite_possibilities when dist_matrix is None: only the
\* current satellite itself, with its GSL distance.
RECURSIVE CollectDirect(_, _, _)
CollectDirect(possible_dst_sats, curr_sat_idx, n2i) ==
    IF possible_dst_sats = <<>> THEN <<>>
    ELSE LET dist_gs_to_sat_m == Head(possible_dst_sats)[1]
             visible_sat_id == Head(possible_dst_sats)[2]
             rest == CollectDirect(Tail(possible_dst_sats), curr_sat_idx, n2i)
         IN  IF visible_sat_id \in DOMAIN n2i /\ n2i[visible_sat_id] = curr_sat_idx
             THEN <<<<dist_gs_to_sat_m, visible_sat_id>>>> \o rest
             ELSE rest

\* _calculate_sat_to_gs_fstate of the topological resolver when
\* nx.floyd_warshall_numpy has raised: dist_matrix is None and the routing goes on
\* without it.
topo_calculate_sat_to_gs_fstate_no_matrix(ground_stations, in_range, nodelist, n2i, ifmap, isl_count) ==
    LET keys == {<<nodelist[x[1]], ground_stations[x[2]]>> :
                    x \in {y \in (1..Len(nodelist)) \X (1..Len(ground_stations)) :
                              /\ nodelist[y[1]] \in DOMAIN isl_count
                              /\ y[2] <= Len(in_range)}}
        gidx(id) == CHOOSE g \in 1..Len(ground_stations) : ground_stations[g] = id
        decision(k) ==
            topo_get_next_hop_decision(
                ListSort(CollectDirect(in_range[gidx(k[2])], n2i[k[1]], n2i)),
                k[1], k[1], ifmap, k[2])
    IN  [k \in {q \in keys : decision(q) # NoDecision} |-> decision(k)]

\* Whether calculate_fstate_topological_routing_no_gs_relay returns {} before
\* step 1: topology.get_satellites() raises, or no satellite node is in the graph.
topo_returns_early(get_satellites_raises, nodes) ==
    get_satellites_raises \/ satellite_node_ids(SatIds, nodes) = <<>>

\* A variant that never returns prev_fstate.
topo_reuses_never(time_since_epoch_ns, prev, graph_has_changed) == FALSE

\* A variant without the forced recalculation of time 0.
topo_reuses_no_force(time_since_epoch_ns, prev, graph_has_changed) ==
    ~graph_has_changed /\ prev # 0

\* Whether the call returns prev_fstate itself (step 2); prev = 0 is None.
topo_reuses(time_since_epoch_ns, prev, graph_has_changed) ==
    LET changed == IF time_since_epoch_ns = 0 THEN TRUE ELSE graph_has_changed
    IN  ~changed /\ prev # 0

-----------------------------------------------------------------------------
(* Construction of the inputs: the topology as the test fixtures build it. *)

\* The interface map and the ISL counts after the ISLs of isl_edges were added in
\* order: each end of a new ISL gets the next free interface of its satellite.
RECURSIVE setup_isls(_, _)
setup_isls(isl_edges, st) ==
    IF isl_edges = <<>> THEN st
    ELSE LET u == Head(isl_edges)[1]
             v == Head(isl_edges)[2]
         IN  setup_isls(Tail(isl_edges),
                 [ifmap |-> [k \in DOMAIN st.ifmap \cup {<<u, v>>, <<v, u>>} |->
                                IF k = <<u, v>> THEN st.count[u]
                                ELSE IF k = <<v, u>> THEN st.count[v]
                                ELSE st.ifmap[k]],
                  count |-> [st.count EXCEPT ![u] = @ + 1, ![v] = @ + 1]])

NoIsls == [ifmap |-> EmptyMap, count |-> [s \in SatIds |-> 0]]

PairLess(p, q) == p[1] < q[1] \/ (p[1] = q[1] /\ p[2] < q[2])

RECURSIVE PairSeq(_)
PairSeq(P) ==
    IF P = {} THEN <<>>
    ELSE LET m == CHOOSE p \in P : \A q \in P : p = q \/ PairLess(p, q)
         IN  <<m>> \o PairSeq(P \ {m})

SatPairs(nodes) == {p \in nodes \X nodes : p[1] < p[2]}

\* The ISL list of a choice w of weights (0: no ISL), pairs in ascending order.
IslList(w) ==
    LET ps == PairSeq({p \in DOMAIN w : w[p] # 0})
    IN  [i \in 1..Len(ps) |-> <<ps[i][1], ps[i][2], w[ps[i]]>>]

\* Visibility choices: v[g, s] is the GSL distance of satellite s from the ground
\* station at index g, 0 when s is not in range.
VisChoices ==
    {v \in [GsIdx \X SatIds -> {0} \cup GslDists] :
        Cardinality({k \in DOMAIN v : v[k] # 0}) <= MaxGSLs}

RECURSIVE VisScan(_, _, _)
VisScan(v, g, order) ==
    IF order = <<>> THEN <<>>
    ELSE IF v[<<g, Head(order)>>] # 0
         THEN <<<<v[<<g, Head(order)>>], Head(order)>>>> \o VisScan(v, g, Tail(order))
         ELSE VisScan(v, g, Tail(order))

VisLists(v) == [g \in GsIdx |-> VisScan(v, g, SatScanOrder)]

\* The GSL edges of a graph that also holds the ground stations as nodes: for
\* every ground station in turn, an edge to each satellite in range, the
\* satellites in ascending order.
RECURSIVE GslEdges(_, _, _)
GslEdges(lists, g, nodes) ==
    IF g > Len(lists) THEN <<>>
    ELSE LET sids == SortedIds({lists[g][i][2] : i \in 1..Len(lists[g])})
             distance_m(sid) ==
                 lists[g][CHOOSE i \in 1..Len(lists[g]) : lists[g][i][2] = sid][1]
         IN  [i \in 1..Len(sids) |-> <<GroundStations[g], sids[i], distance_m(sids[i])>>]
             \o GslEdges(lists, g + 1, nodes)

\* get_path has not been called and has no arguments.
GetPathIdle ==
    /\ forward_state = EmptyMap
    /\ gp_src = 0 /\ gp_dst = 0
    /\ path = <<>>
    /\ current_hop = 0
    /\ gp_pc = "idle"
    /\ gp_ret = [is_none |-> TRUE, path |-> <<>>]

\* _calculate_bandwidth_state has not been called and has no arguments.
BandwidthIdle ==
    /\ number_of_satellites = 0
    /\ list_gsl_interfaces_info = <<>>
    /\ bandwidth_state = EmptyMap
    /\ bw_pc = "idle"

\* The dynamic_state resolver is not called.
DynamicIdle == dyn_pc = "idle" /\ dyn_fstate = EmptyMap

RenamingIdle ==
    /\ ren_sat = EmptyMap
    /\ ren_gs = EmptyMap
    /\ ren_fstate = EmptyMap
    /\ ren_pc = "idle"

\* generate_plus_grid_isls is not being called.
IslBuilderIdle ==
    /\ isl_args = [n_orbits |-> 0, n_sats_per_orbit |-> 0, isl_shift |-> 0, idx_offset |-> 0]
    /\ list_isls = <<>>
    /\ isl_pc = "idle"

\* No address is being made.
AddressIdle ==
    /\ addr_sat_id = 0
    /\ addr_trip = <<>>
    /\ addr_pc = "idle"

\* The topology and the visibility for one choice of the inputs, before any
\* resolver call: the satellite
\* nodes of the graph, whether the graph also holds the ground stations and their
\* GSLs, the ISL weights w and the visibility v; the interface map lacks the keys
\* of missing, and the visibility list holds its first vis_len elements only.
MalformedTopologyState(missing, vis_len, nodes, gs_nodes, w, v) ==
    LET isls == IslList(w)
        st == setup_isls(isls, NoIsls)
        lists == SubSeq(VisLists(v), 1, vis_len)
        gsl == SubgraphEdges(GslEdges(lists, 1, nodes), nodes \cup GsIdSet)
    IN  /\ graph_nodes = IF gs_nodes THEN nodes \cup GsIdSet ELSE nodes
        /\ graph_edges = IF gs_nodes THEN isls \o gsl ELSE isls
        /\ sat_neighbor_to_if = [k \in DOMAIN st.ifmap \ missing |-> st.ifmap[k]]
        /\ number_isls = st.count
        /\ gs_in_range = lists
        /\ pc = "ready"
        /\ fstate = EmptyMap
        /\ dist_cache = EmptyMap
        /\ sixgrupa_addr = EmptyMap
        /\ forwarding_table = [s \in SatIds |-> EmptyMap]
        /\ heap = <<>>
        /\ call = [time |-> 0, prev |-> 0, changed |-> TRUE]
        /\ ret = 0
        /\ ncalls = 0

\* That state with a complete interface map and a visibility list for every
\* ground station.
TopologyState(nodes, gs_nodes, w, v) ==
    MalformedTopologyState({}, Len(GroundStations), nodes, gs_nodes, w, v)

\* That state on a graph the shortest-path computation accepts, with nothing else
\* under way.
InputState(nodes, gs_nodes, w, v) ==
    /\ TopologyState(nodes, gs_nodes, w, v)
    /\ sats_raises = FALSE /\ fw_raises = FALSE /\ ConstructorsAgree
    /\ GetPathIdle /\ BandwidthIdle /\ AddressIdle /\ DynamicIdle /\ RenamingIdle /\ IslBuilderIdle

Init ==
    \E nodes \in SUBSET SatIds, gs_nodes \in BOOLEAN :
    \E w \in [SatPairs(nodes) -> {0} \cup Weights], v \in VisChoices :
        InputState(nodes, gs_nodes, w, v)

\* One call of calculate_fstate_shortest_path_object_no_gs_relay.
CalcShortestPath ==
    /\ pc = "ready"
    /\ \E r \in {calculate_fstate_shortest_path_object_no_gs_relay(sats_raises, fw_raises,
                    graph_nodes, graph_edges, sat_neighbor_to_if, number_isls,
                    GroundStations, gs_in_range)} :
           /\ fstate' = r.fstate
           /\ dist_cache' = r.dist
    /\ pc' = "done"
    /\ UNCHANGED <<input_vars, topo_vars, aux_vars>>

Next == CalcShortestPath

Spec == Init /\ [][Next]_vars

-----------------------------------------------------------------------------
(* Runs of the topological resolver: a sequence of calls on one topology.  *)

\* time_since_epoch_ns of a call.
Times == {0, 1000}

\* Topologies of connected and unconnected satellites with unit ISL weights, no
\* graph at all, or a graph without satellite 30; at most one GSL; from_6grupa
\* raises for no id and set_address_from_orbital_parameters does one of
\* OrbitalChoices.
TopoInit ==
    \E nodes \in {{}, SatIds \ {30}, SatIds} :
    \E w \in [SatPairs(nodes) -> {0, 1}],
       v \in {x \in VisChoices : Cardinality({k \in DOMAIN x : x[k] # 0}) <= 1},
       orbital \in OrbitalChoices :
        /\ TopologyState(nodes, FALSE, w, v)
        /\ sats_raises = FALSE /\ fw_raises = FALSE
        /\ addr_raises = {}
        /\ orbital_addr = orbital
        /\ GetPathIdle /\ BandwidthIdle /\ AddressIdle /\ DynamicIdle /\ RenamingIdle
        /\ IslBuilderIdle

\* The mappings step 4 of the resolver can return on the topology and visibility
\* as they are: the one of the fallback when nx.floyd_warshall_numpy raises, else
\* one for each choice nx.shortest_path can make among equal paths.
TopoComputed ==
    LET nodelist == satellite_node_ids(SatIds, graph_nodes)
        sub_edges == SubgraphEdges(graph_edges, {nodelist[i] : i \in 1..Len(nodelist)})
    IN  IF fw_raises
        THEN {topo_calculate_sat_to_gs_fstate_no_matrix(GroundStations, gs_in_range,
                  nodelist, node_to_index(nodelist), sat_neighbor_to_if, number_isls)}
        ELSE topo_calculate_sat_to_gs_fstate(GroundStations, gs_in_range, nodelist,
                  node_to_index(nodelist), sub_edges, sat_neighbor_to_if, number_isls)

\* A variant of step 1 that initialises at every call.
topo_initializes_always(t) == TRUE

\* Step 1 runs when time_since_epoch_ns == 0.
topo_initializes(t) == t = 0

\* _perform_renumbering_for_gs(gs, gsl_satellites, topology): it logs and returns;
\* the satellites are as they were.
perform_renumbering_for_gs(gs, gsl_satellites, sats) == sats

\* Step 3: _perform_renumbering_for_gs for every ground station with a non-empty
\* list, in the order of ground_stations.
RECURSIVE renumbering_loop(_, _, _, _)
renumbering_loop(ground_stations, in_range, gs_idx, sats) ==
    IF gs_idx > Len(ground_stations)
    THEN sats
    ELSE renumbering_loop(ground_stations, in_range, gs_idx + 1,
             IF gs_idx <= Len(in_range) /\ in_range[gs_idx] # <<>>
             THEN perform_renumbering_for_gs(ground_stations[gs_idx],
                      in_range[gs_idx], sats)
             ELSE sats)

\* calculate_fstate_topological_routing_no_gs_relay(topology, ground_stations,
\* ground_station_satellites_in_range, t, prev, changed), where prev is None (0)
\* or an object an earlier call returned: what the call does to the satellites and
\* what it returns.
TopoCallWith(t, prev, changed) ==
    /\ ncalls < MaxCalls
    /\ ncalls' = ncalls + 1
    /\ call' = [time |-> t, prev |-> prev, changed |-> changed]
    /\ LET nodelist == satellite_node_ids(SatIds, graph_nodes)
           sub_edges == SubgraphEdges(graph_edges,
                            {nodelist[i] : i \in 1..Len(nodelist)})
       IN  IF topo_returns_early(sats_raises, graph_nodes)
           THEN /\ heap' = Append(heap, EmptyMap)
                /\ ret' = Len(heap) + 1
                /\ UNCHANGED <<sixgrupa_addr, forwarding_table>>
           ELSE \E step1 \in {IF topo_initializes(t)
                              THEN [addr |-> set_sixgrupa_addresses_to_all_nodes(
                                                 addr_raises, SatIds,
                                                 sixgrupa_addr),
                                    table |-> fill_forwarding_tables_in_every_satellite(
                                                  orbital_addr,
                                                  nodelist, sub_edges,
                                                  sat_neighbor_to_if, forwarding_table)]
                              ELSE [addr |-> sixgrupa_addr, table |-> forwarding_table]} :
                IF topo_reuses(t, prev, changed)
                THEN /\ heap' = heap
                     /\ ret' = prev
                     /\ sixgrupa_addr' = step1.addr
                     /\ forwarding_table' = step1.table
                ELSE \E step3 \in {renumbering_loop(GroundStations, gs_in_range, 1, step1)} :
                     \E f \in TopoComputed :
                         /\ heap' = Append(heap, f)
                         /\ ret' = Len(heap) + 1
                         /\ sixgrupa_addr' = step3.addr
                         /\ forwarding_table' = step3.table

\* One call of the resolver with any time, any earlier object or None as
\* prev_fstate, and any graph_has_changed.
TopoCall ==
    \E t \in Times, prev \in 0..Len(heap), changed \in BOOLEAN :
        /\ TopoCallWith(t, prev, changed)
        /\ UNCHANGED <<input_vars, sp_vars, aux_vars>>

TopoNext == TopoCall

SpecTopo == TopoInit /\ [][TopoNext]_vars

\* The same calls when from_6grupa raises for any set of satellite ids and
\* set_address_from_orbital_parameters does any of OrbitalOutcomes: the except
\* branches of _set_sixgrupa_addresses_to_all_nodes and
\* Satellite.get_6grupa_addr_from are taken for the ids that raise.
AddressFailureInit ==
    \E w \in [SatPairs(SatIds) -> {0, 1}],
       v \in {x \in VisChoices : \A k \in DOMAIN x : x[k] = 0},
       assigning \in SUBSET SatIds, orbital \in OrbitalOutcomes :
        /\ TopologyState(SatIds, FALSE, w, v)
        /\ sats_raises = FALSE /\ fw_raises = FALSE
        /\ addr_raises = assigning
        /\ orbital_addr = orbital
        /\ GetPathIdle /\ BandwidthIdle /\ AddressIdle /\ DynamicIdle /\ RenamingIdle
        /\ IslBuilderIdle

SpecTopoAddressFailure == AddressFailureInit /\ [][TopoCall]_vars

\* The calls of both resolvers when topology.get_satellites() raises: the except
\* branch at the head of each resolver is taken.
SatellitesFailureInit ==
    \E nodes \in {{}, SatIds \ {30}, SatIds} :
    \E w \in [SatPairs(nodes) -> {0, 1}], v \in VisChoices :
        /\ TopologyState(nodes, FALSE, w, v)
        /\ sats_raises = TRUE
        /\ fw_raises = FALSE /\ ConstructorsAgree
        /\ GetPathIdle /\ BandwidthIdle /\ AddressIdle /\ DynamicIdle /\ RenamingIdle
        /\ IslBuilderIdle

SatellitesFailureNext == CalcShortestPath \/ TopoCall

SpecSatellitesFailure == SatellitesFailureInit /\ [][SatellitesFailureNext]_vars

-----------------------------------------------------------------------------
(* Single calls of the topological resolver on a wider range of inputs:    *)
(* ISL weights that let two shortest paths tie, several satellites in      *)
(* range of a ground station, graphs that also hold the ground stations.   *)

\* ISL weights: 1 + 1 = 2, so a direct ISL can tie with a two-hop path.
TopoWeights == {1, 2}

\* The graph holds the ground stations and their GSLs next to the satellites.
TopoRouteInit ==
    \E nodes \in {{}, SatIds \ {30}, SatIds} :
    \E w \in [SatPairs(nodes) -> {0} \cup TopoWeights], v \in VisChoices :
        InputState(nodes, TRUE, w, v)

\* The first call of a run: prev_fstate can only be None.
TopoFirstCall == ncalls = 0 /\ TopoCall

TopoRouteNext == TopoFirstCall

SpecTopoRoute == TopoRouteInit /\ [][TopoRouteNext]_vars

-----------------------------------------------------------------------------
(* The shortest-path resolver on a topology and on the same topology with  *)
(* other identifiers (test_non_sequential_ids: satellites 10..40, ground   *)
(* stations 100..400 in place of 0..3 and 4..7).                           *)

\* The ids the satellites are renamed to.
SatTargets == {0, 1, 15, 40}
\* The ids the ground stations are renamed to.
GsTargets == {3, 100}

\* The strictly increasing maps of the satellite ids.
SatRenamings ==
    {r \in [SatIds -> SatTargets] : \A a, b \in SatIds : a < b => r[a] < r[b]}

\* The injective maps of the ground-station ids.
GsRenamings ==
    {r \in [GsIdSet -> GsTargets] : \A a, b \in GsIdSet : a # b => r[a] # r[b]}

\* The new id of a node; anything else (the -1 of a sentinel) stays.
RenameId(rs, rg, id) ==
    IF id \in DOMAIN rs THEN rs[id] ELSE IF id \in DOMAIN rg THEN rg[id] ELSE id

\* The graph with its nodes renamed; edges keep their order and weight.
RenameNodes(rs, rg, nodes) == {RenameId(rs, rg, n) : n \in nodes}
RenameEdges(rs, rg, edges) ==
    [i \in 1..Len(edges) |->
        <<RenameId(rs, rg, edges[i][1]), RenameId(rs, rg, edges[i][2]), edges[i][3]>>]

\* A mapping keyed by pairs of ids, with the keys renamed.
RenamePairKeys(rs, rg, m) ==
    [k \in {<<RenameId(rs, rg, q[1]), RenameId(rs, rg, q[2])>> : q \in DOMAIN m} |->
        m[CHOOSE q \in DOMAIN m :
              k = <<RenameId(rs, rg, q[1]), RenameId(rs, rg, q[2])>>]]

\* A mapping keyed by ids, with the keys renamed.
RenameKeys(rs, rg, m) ==
    [k \in {RenameId(rs, rg, q) : q \in DOMAIN m} |->
        m[CHOOSE q \in DOMAIN m : k = RenameId(rs, rg, q)]]

\* ground_stations and the visibility lists, position by position.
RenameStations(rs, rg, ground_stations) ==
    [i \in 1..Len(ground_stations) |-> RenameId(rs, rg, ground_stations[i])]
RenameVisibility(rs, rg, in_range) ==
    [g \in 1..Len(in_range) |->
        [i \in 1..Len(in_range[g]) |->
            <<in_range[g][i][1], RenameId(rs, rg, in_range[g][i][2])>>]]

\* The topologies of the three satellites with unit ISL weights, the ground
\* stations among the graph nodes, and a renaming to run them under.
RenamingInit ==
    \E w \in [SatPairs(SatIds) -> {0, 1}], v \in VisChoices :
        /\ TopologyState(SatIds, TRUE, w, v)
        /\ sats_raises = FALSE /\ fw_raises = FALSE /\ ConstructorsAgree
        /\ GetPathIdle /\ BandwidthIdle /\ AddressIdle /\ DynamicIdle /\ IslBuilderIdle
        /\ ren_sat \in SatRenamings
        /\ ren_gs \in GsRenamings
        /\ ren_fstate = EmptyMap
        /\ ren_pc = "ready"

\* One call of calculate_fstate_shortest_path_object_no_gs_relay on the renamed
\* topology, ground stations and visibility lists.
CalcRenamed ==
    /\ ren_pc = "ready"
    /\ \E r \in {calculate_fstate_shortest_path_object_no_gs_relay(sats_raises, fw_raises,
                    RenameNodes(ren_sat, ren_gs, graph_nodes),
                    RenameEdges(ren_sat, ren_gs, graph_edges),
                    RenamePairKeys(ren_sat, ren_gs, sat_neighbor_to_if),
                    RenameKeys(ren_sat, ren_gs, number_isls),
                    RenameStations(ren_sat, ren_gs, GroundStations),
                    RenameVisibility(ren_sat, ren_gs, gs_in_range))} :
           ren_fstate' = r.fstate
    /\ ren_pc' = "done"
    /\ UNCHANGED <<input_vars, sp_vars, topo_vars, gp_vars, bw_vars, addr_vars,
                   dyn_vars, isl_vars, ren_sat, ren_gs>>

RenamingNext == CalcShortestPath \/ CalcRenamed

SpecRenaming == RenamingInit /\ [][RenamingNext]_vars

-----------------------------------------------------------------------------
(* The shortest-path resolver on a topology whose interface map lacks an   *)
(* entry.                                                                  *)

\* The interface-map keys of the three satellites, of which at most one is missing.
MissingChoices ==
    {{}} \cup {{k} : k \in {p \in SatIds \X SatIds : p[1] # p[2]}}

MissingInterfaceInit ==
    \E w \in [SatPairs(SatIds) -> {0, 1}], v \in VisChoices :
    \E missing \in {m \in MissingChoices : \A k \in m : w[IF k[1] < k[2] THEN k ELSE <<k[2], k[1]>>] # 0} :
        /\ MalformedTopologyState(missing, Len(GroundStations), SatIds, FALSE, w, v)
        /\ sats_raises = FALSE /\ fw_raises = FALSE /\ ConstructorsAgree
        /\ GetPathIdle /\ BandwidthIdle /\ AddressIdle /\ DynamicIdle /\ RenamingIdle
        /\ IslBuilderIdle

MissingInterfaceNext == CalcShortestPath

SpecMissingInterface == MissingInterfaceInit /\ [][MissingInterfaceNext]_vars

-----------------------------------------------------------------------------
(* The three resolvers side by side on small graphs, among them graphs     *)
(* without a satellite node and graphs on which the all-pairs computation  *)
(* raises.                                                                 *)

\* No satellite, one, or two with or without an ISL; with or without the
\* ground-station nodes; a computation that raises or not.
VariantsInit ==
    \E nodes \in {{}, {10}, {10, 20}}, gs_nodes \in BOOLEAN, raises \in BOOLEAN :
    \E w \in [SatPairs(nodes) -> {0} \cup Weights], v \in VisChoices :
        /\ TopologyState(nodes, gs_nodes, w, v)
        /\ sats_raises = FALSE /\ fw_raises = raises /\ ConstructorsAgree
        /\ GetPathIdle /\ BandwidthIdle /\ AddressIdle /\ RenamingIdle /\ IslBuilderIdle
        /\ dyn_pc = "ready" /\ dyn_fstate = EmptyMap

\* One call of the dynamic_state resolver.
DynCalcShortestPath ==
    /\ dyn_pc = "ready"
    /\ dyn_fstate' = dynamic_calculate_fstate(fw_raises, graph_nodes, graph_edges,
                         sat_neighbor_to_if, number_isls, GroundStations, gs_in_range)
    /\ dyn_pc' = "done"
    /\ UNCHANGED <<input_vars, sp_vars, topo_vars, gp_vars, bw_vars, addr_vars, ren_vars, isl_vars>>

VariantsNext == CalcShortestPath \/ DynCalcShortestPath \/ TopoFirstCall

SpecVariants == VariantsInit /\ [][VariantsNext]_vars

-----------------------------------------------------------------------------
(* The two shortest-path resolvers on satellite-only graphs, with a        *)
(* visibility list that may be shorter than the list of ground stations.   *)

ShortVisibilityInit ==
    \E nodes \in {{}, SatIds \ {30}, SatIds}, vis_len \in 0..Len(GroundStations) :
    \E w \in [SatPairs(nodes) -> {0} \cup Weights], v \in VisChoices :
        /\ MalformedTopologyState({}, vis_len, nodes, FALSE, w, v)
        /\ sats_raises = FALSE /\ fw_raises = FALSE /\ ConstructorsAgree
        /\ GetPathIdle /\ BandwidthIdle /\ AddressIdle /\ RenamingIdle /\ IslBuilderIdle
        /\ dyn_pc = "ready" /\ dyn_fstate = EmptyMap

ShortVisibilityNext == CalcShortestPath \/ DynCalcShortestPath

SpecShortVisibility == ShortVisibilityInit /\ [][ShortVisibilityNext]_vars

-----------------------------------------------------------------------------
(* The shortest-path resolver and a first call of the topological resolver *)
(* on one topology with the full interface map.                            *)

\* Topologies of two or three satellites with ISLs of weight 1 or MaxWeight and up
\* to two GSLs; nx.floyd_warshall_numpy does not raise.
AgreementInit ==
    \E nodes \in {SatIds \ {30}, SatIds} :
    \E w \in [SatPairs(nodes) -> {0} \cup Weights],
       v \in {x \in VisChoices : Cardinality({k \in DOMAIN x : x[k] # 0}) <= 2} :
        InputState(nodes, FALSE, w, v)

AgreementNext == CalcShortestPath \/ TopoFirstCall

SpecAgreement == AgreementInit /\ [][AgreementNext]_vars

-----------------------------------------------------------------------------
(* The resolvers at rest, for the runs of the functions that stand apart.  *)

RoutingIdle ==
    /\ graph_nodes = {}
    /\ graph_edges = <<>>
    /\ sat_neighbor_to_if = EmptyMap
    /\ number_isls = [s \in SatIds |-> 0]
    /\ gs_in_range = [g \in GsIdx |-> <<>>]
    /\ sats_raises = FALSE /\ fw_raises = FALSE /\ ConstructorsAgree
    /\ pc = "idle"
    /\ fstate = EmptyMap
    /\ dist_cache = EmptyMap
    /\ sixgrupa_addr = EmptyMap
    /\ forwarding_table = [s \in SatIds |-> EmptyMap]
    /\ heap = <<>>
    /\ call = [time |-> 0, prev |-> 0, changed |-> TRUE]
    /\ ret = 0
    /\ ncalls = 0

-----------------------------------------------------------------------------
(* get_path (post_analysis/graph_tools.py): the path a forwarding state    *)
(* gives from src to dst, followed one loop iteration per step.            *)

\* Nodes of the small forwarding states are 0..MaxNode.
MaxNode == 2

\* max_hops = 200
max_hops == 200

\* return None / return <a list>
NoneResult == [is_none |-> TRUE, path |-> <<>>]
PathResult(p) == [is_none |-> FALSE, path |-> p]

\* next_hop in path
InPath(x, p) == \E i \in 1..Len(p) : p[i] = x

\* get_path up to the while loop: the position reached, the locals and, where it
\* returns, the value returned.
get_path_entry(fs, s, d) ==
    IF s = d
    THEN [pc |-> "done", path |-> <<>>, current_hop |-> s, ret |-> PathResult(<<s>>)]
    ELSE IF <<s, d>> \notin DOMAIN fs
    THEN [pc |-> "done", path |-> <<>>, current_hop |-> s, ret |-> NoneResult]
    ELSE [pc |-> "loop", path |-> <<s>>, current_hop |-> s, ret |-> NoneResult]

\* A variant whose loop check returns the path walked so far.
get_path_step_loop_returns_path(fs, d, p, c) ==
    IF c = d THEN [pc |-> "done", path |-> p, current_hop |-> c, ret |-> PathResult(p)]
    ELSE IF <<c, d>> \notin DOMAIN fs
    THEN [pc |-> "done", path |-> p, current_hop |-> c, ret |-> NoneResult]
    ELSE LET next_hop == fs[<<c, d>>]
         IN  IF InPath(next_hop, p)
             THEN [pc |-> "done", path |-> p, current_hop |-> c, ret |-> PathResult(p)]
             ELSE IF Len(p) + 1 > max_hops
             THEN [pc |-> "done", path |-> Append(p, next_hop), current_hop |-> next_hop,
                   ret |-> NoneResult]
             ELSE [pc |-> "loop", path |-> Append(p, next_hop), current_hop |-> next_hop,
                   ret |-> NoneResult]

\* A variant without the check of the path length.
get_path_step_no_max_hops(fs, d, p, c) ==
    IF c = d THEN [pc |-> "done", path |-> p, current_hop |-> c, ret |-> PathResult(p)]
    ELSE IF <<c, d>> \notin DOMAIN fs
    THEN [pc |-> "done", path |-> p, current_hop |-> c, ret |-> NoneResult]
    ELSE LET next_hop == fs[<<c, d>>]
         IN  IF InPath(next_hop, p)
             THEN [pc |-> "done", path |-> p, current_hop |-> c, ret |-> NoneResult]
             ELSE [pc |-> "loop", path |-> Append(p, next_hop), current_hop |-> next_hop,
                   ret |-> NoneResult]

\* A variant that returns the path walked so far where an entry is missing.
get_path_step_broken_returns_path(fs, d, p, c) ==
    IF c = d THEN [pc |-> "done", path |-> p, current_hop |-> c, ret |-> PathResult(p)]
    ELSE IF <<c, d>> \notin DOMAIN fs
    THEN [pc |-> "done", path |-> p, current_hop |-> c, ret |-> PathResult(p)]
    ELSE LET next_hop == fs[<<c, d>>]
         IN  IF InPath(next_hop, p)
             THEN [pc |-> "done", path |-> p, current_hop |-> c, ret |-> NoneResult]
             ELSE IF Len(p) + 1 > max_hops
             THEN [pc |-> "done", path |-> Append(p, next_hop), current_hop |-> next_hop,
                   ret |-> NoneResult]
             ELSE [pc |-> "loop", path |-> Append(p, next_hop), current_hop |-> next_hop,
                   ret |-> NoneResult]

\* The while test and one iteration of the loop: return path when current_hop is
\* dst; otherwise return None for a missing entry, a next hop already in path, or
\* a path that has grown beyond max_hops; otherwise go round again.
get_path_step(fs, d, p, c) ==
    IF c = d THEN [pc |-> "done", path |-> p, current_hop |-> c, ret |-> PathResult(p)]
    ELSE IF <<c, d>> \notin DOMAIN fs
    THEN [pc |-> "done", path |-> p, current_hop |-> c, ret |-> NoneResult]
    ELSE LET next_hop == fs[<<c, d>>]
         IN  IF InPath(next_hop, p)
             THEN [pc |-> "done", path |-> p, current_hop |-> c, ret |-> NoneResult]
             ELSE IF Len(p) + 1 > max_hops
             THEN [pc |-> "done", path |-> Append(p, next_hop), current_hop |-> next_hop,
                   ret |-> NoneResult]
             ELSE [pc |-> "loop", path |-> Append(p, next_hop), current_hop |-> next_hop,
                   ret |-> NoneResult]

\* Small forwarding states: for the destination d, every node of 0..MaxNode has no
\* entry (-1) or some next hop; with others, entries for the other destinations
\* stand next to them.
SmallForwardState(d, hop, others) ==
    LET Nodes == 0..MaxNode
        keys == {<<n, d>> : n \in {m \in Nodes : hop[m] # -1}}
                  \cup (IF others THEN {k \in Nodes \X Nodes : k[2] # d} ELSE {})
    IN  [k \in keys |-> IF k[2] = d THEN hop[k[1]] ELSE k[2]]

\* Long chains 0 -> 1 -> ... -> n toward n, around the bound of max_hops nodes.
ChainEnds == {max_hops - 2, max_hops - 1, max_hops, max_hops + 1}
ChainForwardState(n) == [k \in {<<i, n>> : i \in 0..(n - 1)} |-> k[1] + 1]

GetPathArgs(fs, s, d) ==
    /\ forward_state = fs
    /\ gp_src = s
    /\ gp_dst = d
    /\ path = <<>>
    /\ current_hop = s
    /\ gp_pc = "ready"
    /\ gp_ret = NoneResult

GetPathInit ==
    /\ RoutingIdle /\ BandwidthIdle /\ AddressIdle /\ DynamicIdle /\ RenamingIdle /\ IslBuilderIdle
    /\ \/ \E s, d \in 0..MaxNode, others \in BOOLEAN :
          \E hop \in [0..MaxNode -> (0..MaxNode) \cup {-1}] :
              GetPathArgs(SmallForwardState(d, hop, others), s, d)
       \/ \E n \in ChainEnds : GetPathArgs(ChainForwardState(n), 0, n)

GetPathMove(r) ==
    /\ gp_pc' = r.pc
    /\ path' = r.path
    /\ current_hop' = r.current_hop
    /\ gp_ret' = r.ret
    /\ UNCHANGED <<forward_state, gp_src, gp_dst>>
    /\ UNCHANGED <<input_vars, sp_vars, topo_vars, bw_vars, addr_vars, dyn_vars, ren_vars, isl_vars>>

\* The call of get_path, up to the while loop.
GetPathCall ==
    /\ gp_pc = "ready"
    /\ GetPathMove(get_path_entry(forward_state, gp_src, gp_dst))

\* The while test and one iteration.
GetPathLoop ==
    /\ gp_pc = "loop"
    /\ GetPathMove(get_path_step(forward_state, gp_dst, path, current_hop))

GetPathNext == GetPathCall \/ GetPathLoop

SpecGetPath == GetPathInit /\ [][GetPathNext]_vars

\* get_path runs on its own: a started call keeps taking its steps.
SpecGetPathFair == SpecGetPath /\ WF_vars(GetPathNext)

-----------------------------------------------------------------------------
(* get_path on the forwarding state of the shortest-path resolver: the     *)
(* resolver runs, then the path from a satellite to a ground station is    *)
(* followed through the next hops it recorded.                             *)

\* forward_state as get_path expects it: (current node, destination) -> next hop
\* node id, without the keys whose next hop is -1.
next_hop_projection(fs) ==
    [k \in {x \in DOMAIN fs : fs[x][1] # -1} |-> fs[k][1]]

\* Topologies of two or three satellites with ISLs of weight 1 or MaxWeight, with
\* or without the ground stations as graph nodes, and up to two GSLs.
DeliveryInit ==
    \E nodes \in {SatIds \ {30}, SatIds}, gs_nodes \in BOOLEAN :
    \E w \in [SatPairs(nodes) -> {0} \cup Weights],
       v \in {x \in VisChoices : Cardinality({k \in DOMAIN x : x[k] # 0}) <= 2} :
        InputState(nodes, gs_nodes, w, v)

\* get_path(S, G, forward_state) is called for a satellite S and a ground station
\* G with a next hop in the computed fstate.
DeliveryCall ==
    /\ pc = "done"
    /\ gp_pc = "idle"
    /\ \E S \in graph_nodes \cap SatIds, g \in GsIdx :
          /\ <<S, GroundStations[g]>> \in DOMAIN fstate
          /\ fstate[<<S, GroundStations[g]>>] # DropSentinel
          /\ forward_state' = next_hop_projection(fstate)
          /\ gp_src' = S
          /\ gp_dst' = GroundStations[g]
    /\ path' = <<>>
    /\ current_hop' = gp_src'
    /\ gp_pc' = "ready"
    /\ gp_ret' = NoneResult
    /\ UNCHANGED <<input_vars, sp_vars, topo_vars, bw_vars, addr_vars, dyn_vars,
                   ren_vars, isl_vars>>

DeliveryNext == CalcShortestPath \/ DeliveryCall \/ GetPathCall \/ GetPathLoop

SpecDelivery == DeliveryInit /\ [][DeliveryNext]_vars

-----------------------------------------------------------------------------
(* _calculate_bandwidth_state: the bandwidth mapping of the topological    *)
(* dynamic state.                                                          *)

\* Longest list_gsl_interfaces_info.
MaxInfoLen == 3
\* Node ids of the records are drawn from 0..MaxInfoId.
MaxInfoId == 3
\* aggregate_max_bandwidth values of the records; none is the 0.0 of the fill.
Bandwidths == {1, 2}
\* constellation_data.number_of_satellites.
SatCounts == {0, 1, 2}

\* The node_info dicts: with both keys, or without the key "aggregate_max_bandwidth",
\* or without the key "id".
InfoRecords ==
    {[id |-> i, aggregate_max_bandwidth |-> b] : i \in 0..MaxInfoId, b \in Bandwidths}
        \cup {[id |-> i] : i \in 0..MaxInfoId}
        \cup {[aggregate_max_bandwidth |-> b] : b \in Bandwidths}

\* bandwidth_state[node_id] = bandwidth
DictSet(d, k, v) == [x \in DOMAIN d \cup {k} |-> IF x = k THEN v ELSE d[x]]

\* for i in range(num_total_nodes), from position i on: the record at position i
\* gives the id and the bandwidth, a position past the list gives id i and 0.0.
RECURSIVE bandwidth_loop(_, _, _, _)
bandwidth_loop(i, num_total_nodes, infos, state) ==
    IF i >= num_total_nodes THEN state
    ELSE LET node_id == IF i < Len(infos) THEN DictGet(infos[i + 1], "id", i) ELSE i
             bandwidth == IF i < Len(infos)
                          THEN DictGet(infos[i + 1], "aggregate_max_bandwidth", 0)
                          ELSE 0
         IN  bandwidth_loop(i + 1, num_total_nodes, infos,
                            DictSet(state, node_id, bandwidth))

calculate_bandwidth_state(num_satellites, ground_stations, infos) ==
    bandwidth_loop(0, num_satellites + Len(ground_stations), infos, EmptyMap)

BandwidthInit ==
    /\ RoutingIdle /\ GetPathIdle /\ AddressIdle /\ DynamicIdle /\ RenamingIdle /\ IslBuilderIdle
    /\ number_of_satellites \in SatCounts
    /\ list_gsl_interfaces_info \in UNION {[1..n -> InfoRecords] : n \in 0..MaxInfoLen}
    /\ bandwidth_state = EmptyMap
    /\ bw_pc = "ready"

CalculateBandwidthState ==
    /\ bw_pc = "ready"
    /\ bandwidth_state' = calculate_bandwidth_state(number_of_satellites,
                              GroundStations, list_gsl_interfaces_info)
    /\ bw_pc' = "done"
    /\ UNCHANGED <<input_vars, sp_vars, topo_vars, gp_vars, addr_vars, dyn_vars, ren_vars, isl_vars,
                   number_of_satellites, list_gsl_interfaces_info>>

BandwidthNext == CalculateBandwidthState

SpecBandwidth == BandwidthInit /\ [][BandwidthNext]_vars

-----------------------------------------------------------------------------
(* Ticks of algorithm_free_one_only_over_isls_topological, each fed the    *)
(* output of the tick before it, with the visibility moving in between.    *)

\* A variant that takes the graph as unchanged whenever a previous output is given.
tick_graph_has_changed_if_first(prev_fstate) == prev_fstate = 0

\* graph_has_changed as the entry point sets it: True without a previous output,
\* and True again with one.
tick_graph_has_changed(prev_fstate) == TRUE

\* One record per node, as the tests give them.
TickInterfacesInfo ==
    [i \in 1..5 |-> [id |-> <<10, 20, 30, 100, 200>>[i], aggregate_max_bandwidth |-> 1]]

\* The visibility lists a tick can find: nothing in range, or each ground station
\* with one satellite in range.
TickVisibility ==
    {[g \in GsIdx |-> <<>>],
     [g \in GsIdx |-> IF g = 1 THEN <<<<1, 10>>>> ELSE <<<<1, 20>>>>],
     [g \in GsIdx |-> IF g = 1 THEN <<<<1, 20>>>> ELSE <<<<1, 10>>>>]}

TicksInit ==
    \E nodes \in {{}, SatIds \ {30}, SatIds} :
    \E w \in [SatPairs(nodes) -> {0, 1}],
       v \in {x \in VisChoices : Cardinality({k \in DOMAIN x : x[k] # 0}) <= 1} :
        /\ TopologyState(nodes, FALSE, w, v)
        /\ sats_raises = FALSE /\ fw_raises = FALSE /\ ConstructorsAgree
        /\ GetPathIdle /\ AddressIdle /\ DynamicIdle /\ RenamingIdle /\ IslBuilderIdle
        /\ number_of_satellites = Cardinality(SatIds)
        /\ list_gsl_interfaces_info = TickInterfacesInfo
        /\ bandwidth_state = EmptyMap
        /\ bw_pc = "ready"

\* One tick: prev_output is None at the first tick and the output of the tick
\* before at every other.
AlgorithmTick ==
    \E t \in Times :
    \E prev_fstate \in {IF ncalls = 0 THEN 0 ELSE ret} :
        /\ bandwidth_state' = calculate_bandwidth_state(number_of_satellites,
                                  GroundStations, list_gsl_interfaces_info)
        /\ bw_pc' = "done"
        /\ TopoCallWith(t, prev_fstate, tick_graph_has_changed(prev_fstate))
        /\ UNCHANGED <<input_vars, sp_vars, gp_vars, addr_vars, dyn_vars, ren_vars,
                       isl_vars, number_of_satellites, list_gsl_interfaces_info>>

\* Between two ticks the satellites move on: other satellites are in range.
VisibilityMoves ==
    /\ ncalls > 0 /\ ncalls < MaxCalls
    /\ gs_in_range' \in TickVisibility \ {gs_in_range}
    /\ UNCHANGED <<graph_nodes, graph_edges, sat_neighbor_to_if, number_isls, sats_raises, fw_raises,
                   addr_raises,
                   orbital_addr,
                   sp_vars, topo_vars, aux_vars>>

TicksNext == AlgorithmTick \/ VisibilityMoves

SpecTicks == TicksInit /\ [][TicksNext]_vars

-----------------------------------------------------------------------------
(* isl_builder: the ISLs of a plus-grid constellation.                     *)

\* n_orbits and n_sats_per_orbit are drawn from 0..MaxOrbits and 0..MaxSatsPerOrbit.
MaxOrbits == 4
MaxSatsPerOrbit == 4
\* isl_shift is drawn from -1..MaxShift.
MaxShift == 2
\* idx_offset: none, or the offset of test_generate_plus_grid_isls_with_offset.
IdxOffsets == {0, 10}

\* setup_isls_in_the_same_orbit: for orbit in range(num_orbits), for sat in
\* range(sats_per_orbit), the link to the next satellite of the orbit; the link at
\* position p of the list is the one of orbit (p-1) div sats_per_orbit and
\* sat (p-1) mod sats_per_orbit.
setup_isls_in_the_same_orbit(num_orbits, sats_per_orbit, idx_offset) ==
    [p \in 1..(num_orbits * sats_per_orbit) |->
        LET orbit == (p - 1) \div sats_per_orbit
            sat == (p - 1) % sats_per_orbit
            sat_id == idx_offset + orbit * sats_per_orbit + sat
            next_sat_id == idx_offset + orbit * sats_per_orbit
                               + ((sat + 1) % sats_per_orbit)
        IN  <<sat_id, next_sat_id>>]

\* The loop of generate_plus_grid_isls over the orbits i and the satellites j.
inter_orbit_isls(n_orbits, n_sats_per_orbit, isl_shift, idx_offset) ==
    [p \in 1..(n_orbits * n_sats_per_orbit) |->
        LET i == (p - 1) \div n_sats_per_orbit
            j == (p - 1) % n_sats_per_orbit
            next_orbit == (i + 1) % n_orbits
            sat_id == idx_offset + i * n_sats_per_orbit + j
            adj_sat_id == idx_offset + next_orbit * n_sats_per_orbit
                              + ((j + isl_shift) % n_sats_per_orbit)
        IN  <<sat_id, adj_sat_id>>]

\* A variant that asks for two orbits and two satellites per orbit only.
generate_plus_grid_isls_from_two(n_orbits, n_sats_per_orbit, isl_shift, idx_offset) ==
    IF n_orbits < 2 \/ n_sats_per_orbit < 2 THEN <<>>
    ELSE setup_isls_in_the_same_orbit(n_orbits, n_sats_per_orbit, idx_offset)
             \o inter_orbit_isls(n_orbits, n_sats_per_orbit, isl_shift, idx_offset)

generate_plus_grid_isls(n_orbits, n_sats_per_orbit, isl_shift, idx_offset) ==
    IF n_orbits < 3 \/ n_sats_per_orbit < 3 THEN <<>>
    ELSE setup_isls_in_the_same_orbit(n_orbits, n_sats_per_orbit, idx_offset)
             \o inter_orbit_isls(n_orbits, n_sats_per_orbit, isl_shift, idx_offset)

IslBuilderInit ==
    /\ RoutingIdle /\ GetPathIdle /\ BandwidthIdle /\ AddressIdle /\ DynamicIdle
    /\ RenamingIdle
    /\ isl_args \in [n_orbits : 0..MaxOrbits, n_sats_per_orbit : 0..MaxSatsPerOrbit,
                     isl_shift : -1..MaxShift, idx_offset : IdxOffsets]
    /\ list_isls = <<>>
    /\ isl_pc = "ready"

GeneratePlusGridIsls ==
    /\ isl_pc = "ready"
    /\ list_isls' = generate_plus_grid_isls(isl_args.n_orbits, isl_args.n_sats_per_orbit,
                                            isl_args.isl_shift, isl_args.idx_offset)
    /\ isl_pc' = "done"
    /\ UNCHANGED <<input_vars, sp_vars, topo_vars, gp_vars, bw_vars, addr_vars, dyn_vars,
                   ren_vars, isl_args>>

IslBuilderNext == GeneratePlusGridIsls

SpecIslBuilder == IslBuilderInit /\ [][IslBuilderNext]_vars

-----------------------------------------------------------------------------
(* The address of a satellite, serialized and read back                    *)
(* (test_topological_address_assignment).                                  *)

\* Satellite ids are drawn from 0..MaxSatId.
MaxSatId == 128

AddressInit ==
    /\ RoutingIdle /\ GetPathIdle /\ BandwidthIdle /\ DynamicIdle /\ RenamingIdle /\ IslBuilderIdle
    /\ addr_sat_id \in 0..MaxSatId
    /\ addr_trip = <<>>
    /\ addr_pc = "ready"

\* addr = from_6grupa(sat.id); sat.sixgrupa_addr = addr;
\* integer_repr = addr.to_integer(); reconstructed = from_integer(integer_repr)
AddressRoundTrip ==
    /\ addr_pc = "ready"
    /\ \E addr \in {from_6grupa(addr_sat_id)} :
       \E integer_repr \in {to_integer(addr)} :
           /\ sixgrupa_addr' = [s \in DOMAIN sixgrupa_addr \cup {addr_sat_id} |->
                                    IF s = addr_sat_id THEN addr ELSE sixgrupa_addr[s]]
           /\ addr_trip' = <<addr, integer_repr, from_integer(integer_repr)>>
    /\ addr_pc' = "done"
    /\ UNCHANGED <<input_vars, sp_vars, forwarding_table, heap, call, ret, ncalls,
                   gp_vars, bw_vars, dyn_vars, ren_vars, isl_vars, addr_sat_id>>

AddressNext == AddressRoundTrip

SpecAddress == AddressInit /\ [][AddressNext]_vars

-----------------------------------------------------------------------------
(* Reference notions for the properties, defined from the inputs alone:    *)
(* ISL paths are enumerated, no distance matrix is used.                   *)

\* The satellite nodes of the ISL graph.
SatNodes == graph_nodes \cap SatIds

\* The loop-free ISL paths: sequences of distinct satellite nodes joined by ISLs.
IslPaths ==
    {p \in UNION {[1..n -> SatNodes] : n \in 1..Cardinality(SatNodes)} :
        /\ \A i, j \in DOMAIN p : i # j => p[i] # p[j]
        /\ \A i \in 1..(Len(p) - 1) : HasEdge(graph_edges, p[i], p[i + 1])}

RECURSIVE PathLength(_)
PathLength(p) ==
    IF Len(p) <= 1 THEN 0
    ELSE EdgeWeight(graph_edges, p[1], p[2]) + PathLength(Tail(p))

\* The length of the shortest ISL path between every two satellite nodes, Inf when
\* there is none.  The properties evaluate it once per state and hand it on as R.
ShortestIsl ==
    LET paths == IslPaths
        lens == [p \in paths |-> PathLength(p)]
    IN  [s \in SatNodes |-> [e \in SatNodes |->
            LET L == {lens[p] : p \in {q \in paths : q[1] = s /\ q[Len(q)] = e}}
            IN  IF L = {} THEN Inf ELSE SetMin(L)]]

\* The visibility entries <<distance, sat>> of the ground station at index g.
Visible(g) == {gs_in_range[g][i] : i \in 1..Len(gs_in_range[g])}

\* The exit candidates of satellite s toward the ground station at index g.
Exits(R, s, g) == {x \in Visible(g) : x[2] \in SatNodes /\ R[s][x[2]] < Inf}

\* The totals of the best routes s -> exit satellite -> ground station g, per exit.
RouteTotals(R, s, g) == {R[s][x[2]] + x[1] : x \in Exits(R, s, g)}

\* The totals of all routes s -> ISL path -> exit satellite -> ground station g.
AllRouteTotals(s, g) ==
    {PathLength(y[1]) + y[2][1] :
        y \in {z \in IslPaths \X Visible(g) :
                  z[1][1] = s /\ z[1][Len(z[1])] = z[2][2]}}

\* The selected exit satellite: least total, then least id.
SelectedExit(R, s, g) ==
    LET least == SetMin(RouteTotals(R, s, g))
    IN  SetMin({x[2] : x \in {y \in Exits(R, s, g) : R[s][y[2]] + y[1] = least}})

IslNeighbors(s) == {n \in SatNodes : HasEdge(graph_edges, s, n)}

-----------------------------------------------------------------------------
(* Properties of the shortest-path resolver (specification Spec).          *)

\* C1: for every satellite S of the ISL graph and ground station G with a visible
\* satellite reachable from S, the recorded total is the minimum over all exit
\* satellites and all ISL paths of path length plus GSL distance, and when the
\* selected exit E is not S the next hop N is an ISL neighbour of S with
\* weight(S,N) + D[N,E] = D[S,E].
C1_WeightMinimalRoute ==
    pc = "done" =>
        \A R \in {ShortestIsl} : \A s \in SatNodes, g \in GsIdx :
            Exits(R, s, g) # {} =>
                \A e \in {SelectedExit(R, s, g)}, key \in {<<s, GroundStations[g]>>} :
                    /\ key \in DOMAIN dist_cache
                    /\ dist_cache[key] = SetMin(RouteTotals(R, s, g))
                    /\ e # s =>
                         \A n \in {fstate[key][1]} :
                             /\ n \in IslNeighbors(s)
                             /\ R[n][e] < Inf
                             /\ EdgeWeight(graph_edges, s, n) + R[n][e] = R[s][e]

\* A multi-hop decision was taken where routes of different totals exist.
C1_Witness ==
    /\ pc = "done"
    /\ \E s \in SatNodes, g \in GsIdx :
          /\ Cardinality(AllRouteTotals(s, g)) >= 3
          /\ Cardinality(Exits(ShortestIsl, s, g)) >= 2
          /\ SelectedExit(ShortestIsl, s, g) # s
          /\ fstate[<<s, GroundStations[g]>>][1] \in SatIds

\* C2: when no satellite visible to G is in the ISL graph and reachable from S, the
\* entry (S,G) exists, is the drop sentinel, and the recorded distance is infinite.
C2_NoRouteIsSentinel ==
    pc = "done" =>
        \A R \in {ShortestIsl} : \A s \in SatNodes, g \in GsIdx :
            Exits(R, s, g) = {} =>
                \A key \in {<<s, GroundStations[g]>>} :
                    /\ key \in DOMAIN fstate
                    /\ fstate[key] = DropSentinel
                    /\ key \in DOMAIN dist_cache
                    /\ IsInf(dist_cache[key])

\* G sees satellites, yet none that S can use: one missing from the graph, one
\* S has no ISL path to.
C2_Witness ==
    /\ pc = "done"
    /\ \E s \in SatNodes, g \in GsIdx :
          /\ Exits(ShortestIsl, s, g) = {}
          /\ \E x \in Visible(g) : x[2] \notin SatNodes
          /\ \E x \in Visible(g) : x[2] \in SatNodes
          /\ fstate[<<s, GroundStations[g]>>] = DropSentinel

\* C3: when S is itself the selected exit satellite for G, the entry is
\* (G.id, S.number_isls, 0).
C3_DirectExit ==
    pc = "done" =>
        \A R \in {ShortestIsl} : \A s \in SatNodes, g \in GsIdx :
            (Exits(R, s, g) # {} /\ SelectedExit(R, s, g) = s) =>
                /\ <<s, GroundStations[g]>> \in DOMAIN fstate
                /\ fstate[<<s, GroundStations[g]>>]
                      = <<GroundStations[g], number_isls[s], 0>>

\* A satellite with two ISLs is the exit although another satellite is visible too.
C3_Witness ==
    /\ pc = "done"
    /\ \E s \in SatNodes, g \in GsIdx :
          /\ Cardinality(Exits(ShortestIsl, s, g)) >= 2
          /\ SelectedExit(ShortestIsl, s, g) = s
          /\ number_isls[s] = 2
          /\ fstate[<<s, GroundStations[g]>>] = <<GroundStations[g], 2, 0>>

\* C4: when the selected exit E differs from S, the entry is
\* (N, sat_neighbor_to_if[(S,N)], sat_neighbor_to_if[(N,S)]) for an ISL neighbour N
\* of S that minimises weight(S,N) + D[N,E] over the neighbours with finite D[N,E].
C4_MultihopNeighbor ==
    pc = "done" =>
        \A R \in {ShortestIsl} : \A s \in SatNodes, g \in GsIdx :
            Exits(R, s, g) # {} =>
                \A e \in {SelectedExit(R, s, g)}, key \in {<<s, GroundStations[g]>>} :
                    e # s =>
                        LET via(m) == EdgeWeight(graph_edges, s, m) + R[m][e]
                            cands == {m \in IslNeighbors(s) : R[m][e] < Inf}
                        IN  /\ key \in DOMAIN fstate
                            /\ \A n \in {fstate[key][1]} :
                                  /\ n \in cands
                                  /\ \A m \in cands : via(n) <= via(m)
                                  /\ <<s, n>> \in DOMAIN sat_neighbor_to_if
                                  /\ <<n, s>> \in DOMAIN sat_neighbor_to_if
                                  /\ fstate[key][2] = sat_neighbor_to_if[<<s, n>>]
                                  /\ fstate[key][3] = sat_neighbor_to_if[<<n, s>>]

\* S has two neighbours leading to E at different cost, and the two interfaces of
\* the chosen ISL differ.
C4_Witness ==
    /\ pc = "done"
    /\ \E s \in SatNodes, g \in GsIdx :
          LET R == ShortestIsl
          IN  /\ Exits(R, s, g) # {}
              /\ SelectedExit(R, s, g) # s
              /\ LET e == SelectedExit(R, s, g)
                     ent == fstate[<<s, GroundStations[g]>>]
                 IN  /\ \E m \in IslNeighbors(s) :
                           /\ R[m][e] < Inf
                           /\ EdgeWeight(graph_edges, s, m) + R[m][e] > R[s][e]
                     /\ ent[1] \in IslNeighbors(s)
                     /\ ent[2] # ent[3]

\* The entry satellites the ground station at index src can use toward the ground
\* station dst: visible, in the ISL graph, with a finite recorded distance to dst.
Entries(src, dst) ==
    {x \in Visible(src) :
        /\ x[2] \in SatNodes
        /\ <<x[2], dst>> \in DOMAIN dist_cache
        /\ ~IsInf(dist_cache[<<x[2], dst>>])}

\* The GS-to-GS entry of (src, dst) is as C5 describes it.
GsToGsEntryOk(src, dst) ==
    \A key \in {<<GroundStations[src], GroundStations[dst]>>},
       cands \in {Entries(src, GroundStations[dst])} :
        /\ key \in DOMAIN fstate
        /\ IF cands = {} THEN fstate[key] = DropSentinel
           ELSE \E x \in cands :
                   /\ \A y \in cands :
                         x[1] + dist_cache[<<x[2], key[2]>>]
                            <= y[1] + dist_cache[<<y[2], key[2]>>]
                   /\ fstate[key] = <<x[2], 0, number_isls[x[2]]>>

\* C5 as claimed: for every ordered pair of distinct ground stations, the entry is
\* (E*, 0, E*.number_isls) for an entry satellite E* of least
\* gsl_distance(src,E) + recorded_distance(E,dst), and the sentinel when there is
\* no entry satellite.
C5_Original ==
    pc = "done" =>
        \A src \in GsIdx, dst \in GsIdx : src # dst => GsToGsEntryOk(src, dst)

\* C5, amended: the same, when the ISL graph holds at least one satellite node.
C5_GsToGsEntry ==
    (pc = "done" /\ SatNodes # {}) =>
        \A src \in GsIdx, dst \in GsIdx : src # dst => GsToGsEntryOk(src, dst)

\* A source with two usable entry satellites of different totals, the first of its
\* visibility list not being the best.
C5_Witness ==
    /\ pc = "done"
    /\ \E src \in GsIdx, dst \in GsIdx :
          /\ src # dst
          /\ Cardinality(Entries(src, GroundStations[dst])) >= 2
          /\ \E x \in Entries(src, GroundStations[dst]) :
                /\ x # gs_in_range[src][1]
                /\ x[1] + dist_cache[<<x[2], GroundStations[dst]>>]
                      < gs_in_range[src][1][1]
                        + DictGet(dist_cache, <<gs_in_range[src][1][2], GroundStations[dst]>>, Inf)
                /\ fstate[<<GroundStations[src], GroundStations[dst]>>][1] = x[2]

\* C6: the next hop of every entry (x, G) is -1, a satellite of the ISL graph, or
\* G itself, and G only when x is a satellite: no ground station is a relay.
C6_NoGsRelay ==
    pc = "done" =>
        \A key \in DOMAIN fstate :
            \/ fstate[key][1] = -1
            \/ fstate[key][1] \in SatNodes
            \/ fstate[key][1] = key[2] /\ key[1] \in SatIds

\* The graph holds a ground station whose GSLs join two satellites more cheaply
\* than their ISL does, and the route between them is resolved over the ISL.
C6_Witness ==
    /\ pc = "done"
    /\ \E a \in SatNodes, b \in SatNodes, g \in GsIdx, h \in GsIdx :
          /\ a # b /\ g # h
          /\ GroundStations[g] \in graph_nodes
          /\ HasEdge(graph_edges, a, GroundStations[g])
          /\ HasEdge(graph_edges, b, GroundStations[g])
          /\ HasEdge(graph_edges, a, b)
          /\ EdgeWeight(graph_edges, a, GroundStations[g])
                + EdgeWeight(graph_edges, b, GroundStations[g])
                < EdgeWeight(graph_edges, a, b)
          /\ fstate[<<a, GroundStations[h]>>][1] = b

\* C7: when the ISL graph has a satellite node (and every ground station has its
\* visibility list), the keys of fstate are exactly the pairs (satellite node,
\* ground station) and the ordered pairs of distinct ground stations.
C7_KeySet ==
    (pc = "done" /\ SatNodes # {} /\ Len(gs_in_range) = Len(GroundStations)) =>
        DOMAIN fstate = (SatNodes \X GsIdSet)
                           \cup {k \in GsIdSet \X GsIdSet : k[1] # k[2]}

\* The graph also holds ground-station nodes and lacks a satellite, and sentinel
\* and routed entries stand side by side.
C7_Witness ==
    /\ pc = "done"
    /\ SatNodes # {} /\ SatNodes # SatIds
    /\ GsIdSet \subseteq graph_nodes
    /\ \E k \in DOMAIN fstate : fstate[k] = DropSentinel
    /\ \E k \in DOMAIN fstate : k[1] \in GsIdSet /\ fstate[k] # DropSentinel
    /\ Cardinality(DOMAIN fstate)
          = Cardinality(SatNodes) * Len(GroundStations)
            + Len(GroundStations) * (Len(GroundStations) - 1)

-----------------------------------------------------------------------------
(* Properties of the topological resolver (specification SpecTopo).        *)

\* A step is one call; call' holds its arguments, ret' the object it returns.
\* The call has the arguments of the short-circuit: not time 0, graph_has_changed
\* false, a prev_fstate.
ShortCircuitArgs ==
    call'.time # 0 /\ ~call'.changed /\ call'.prev # 0

\* The call returns the prev_fstate object itself and no object of the heap has
\* changed or appeared.
ReturnsPrevUnchanged == ret' = call'.prev /\ heap' = heap

\* The claim as stated: every call with the arguments of the short-circuit returns
\* the prev_fstate object itself, whatever the topology.
C8_Original == [][ShortCircuitArgs => ReturnsPrevUnchanged]_vars

\* C8: on a graph with at least one satellite node, a call with
\* time_since_epoch_ns # 0, graph_has_changed = False and a prev_fstate returns
\* that very object, and its contents are what they were.  (On a graph without
\* satellite nodes the call returns a new empty mapping before it looks at
\* prev_fstate.)
C8_ShortCircuitIdentity ==
    [][(ShortCircuitArgs /\ SatNodes # {}) => ReturnsPrevUnchanged]_vars

\* A second call was handed the first call's non-empty result and returned it.
C8_Witness ==
    /\ ncalls = 2
    /\ SatNodes # {}
    /\ call.time # 0 /\ ~call.changed /\ call.prev = 1
    /\ ret = 1
    /\ Len(heap) = 1
    /\ DOMAIN heap[1] # {}

\* The call has created the object it returns: it is not prev_fstate nor any other
\* object that existed before the call.
ReturnsNewObject ==
    /\ ret' = Len(heap) + 1
    /\ Len(heap') = Len(heap) + 1
    /\ ret' # call'.prev
    /\ \A i \in 1..Len(heap) : heap'[i] = heap[i]

\* The returned mapping follows the current visibility: a satellite node that is
\* the only satellite in range of a ground station forwards to it directly, and a
\* ground station without a satellite node in range has no entry at all.
FollowsVisibility(f) ==
    \A g \in GsIdx :
        /\ \A e \in SatNodes :
              {x[2] : x \in Visible(g)} = {e} =>
                  /\ <<e, GroundStations[g]>> \in DOMAIN f
                  /\ f[<<e, GroundStations[g]>>] = <<"GSL", GroundStations[g]>>
        /\ {x[2] : x \in Visible(g)} \cap SatNodes = {} =>
              \A s \in SatNodes : <<s, GroundStations[g]>> \notin DOMAIN f

\* Every satellite of the topology holds the address of its id.
AllAddressed ==
    /\ DOMAIN sixgrupa_addr' = SatIds
    /\ \A s \in SatIds : sixgrupa_addr'[s] = from_6grupa(s)

\* The claim as stated: every call at time 0 returns a newly computed mapping and
\* leaves every satellite of the topology with an address.
C9_Original ==
    [][call'.time = 0 =>
          (ReturnsNewObject /\ FollowsVisibility(heap'[ret']) /\ AllAddressed)]_vars

\* C9: on a graph with at least one satellite node, a call at time 0 recomputes
\* even with graph_has_changed = False and a prev_fstate: it returns a new object
\* computed from the current topology and visibility, and every satellite of the
\* topology holds an address at the end of the call.  (On a graph without satellite
\* nodes the call returns a new empty mapping and assigns no address.)
C9_TimeZeroRecomputes ==
    [][(call'.time = 0 /\ SatNodes # {}) =>
          (ReturnsNewObject /\ FollowsVisibility(heap'[ret']) /\ AllAddressed)]_vars

\* A second call, at time 0 with graph_has_changed = False and the first call's
\* non-empty result as prev_fstate, has returned another object.
C9_Witness ==
    /\ ncalls = 2
    /\ SatNodes # {}
    /\ call.time = 0 /\ ~call.changed /\ call.prev = 1
    /\ ret = 2
    /\ DOMAIN heap[1] # {}
    /\ heap[2] = heap[1]
    /\ DOMAIN sixgrupa_addr = SatIds

-----------------------------------------------------------------------------
(* Forwarding tables after a call at time 0 (specifications SpecTopo and   *)
(* SpecTopoAddressFailure).                                                *)
(* C10 says that S.forwarding_table maps the serialized address assigned   *)
(* to each ISL neighbour N to sat_neighbor_to_if[(S, N)], under distinct   *)
(* keys.  The key the code writes is the integer form of what              *)
(* set_address_from_orbital_parameters returns for N, and no entry is      *)
(* written when that call raises; the address N holds comes from           *)
(* from_6grupa.  The code of the address class is not in the repository,   *)
(* so whether the two constructors agree is not known and C10 is left      *)
(* open.  What the loop establishes whatever that constructor does, and    *)
(* C10 under the condition that the constructors agree, are stated below.  *)

\* The forwarding-table key of neighbour N: the serialized address assigned to N.
AddressKey(N) == to_integer(sixgrupa_addr[N])

\* The key under which the loop files neighbour N: the integer form of the address
\* get_6grupa_addr_from returns for N.
NeighbourKey(N) == to_integer(get_6grupa_addr_from(orbital_addr, N))

\* The ISL neighbours of S for which the loop writes an entry: those with an
\* address from get_6grupa_addr_from and an interface in sat_neighbor_to_if.
Filed(S) ==
    {N \in IslNeighbors(S) :
        /\ get_6grupa_addr_from(orbital_addr, N) # NoAddress
        /\ <<S, N>> \in DOMAIN sat_neighbor_to_if}

\* After a call at time 0, the table of every satellite node S of the graph has
\* exactly the keys of its filed neighbours; the value under a key is the local
\* interface sat_neighbor_to_if[(S, M)] toward a filed neighbour M with that key,
\* and toward N itself when no other filed neighbour shares the key of N.
ForwardingTablesFollowConstructor ==
    (ncalls > 0 /\ call.time = 0) =>
        \A S \in SatNodes :
            /\ DOMAIN forwarding_table[S] = {NeighbourKey(N) : N \in Filed(S)}
            /\ \A N \in Filed(S) :
                  /\ \E M \in Filed(S) :
                        /\ NeighbourKey(M) = NeighbourKey(N)
                        /\ forwarding_table[S][NeighbourKey(N)]
                              = sat_neighbor_to_if[<<S, M>>]
                  /\ (\A M \in Filed(S) \ {N} : NeighbourKey(M) # NeighbourKey(N))
                        => forwarding_table[S][NeighbourKey(N)]
                              = sat_neighbor_to_if[<<S, N>>]

\* C10 as stated: after a call at time 0, every satellite node S of the ISL graph
\* maps the serialized address assigned to each ISL neighbour N to
\* sat_neighbor_to_if[(S, N)], and distinct neighbours of S have distinct keys.
ForwardingTablesKeyedByAssignedAddress ==
    (ncalls > 0 /\ call.time = 0) =>
        \A S \in SatNodes :
            /\ \A N \in IslNeighbors(S) :
                  /\ AddressKey(N) \in DOMAIN forwarding_table[S]
                  /\ forwarding_table[S][AddressKey(N)] = sat_neighbor_to_if[<<S, N>>]
            /\ \A N1, N2 \in IslNeighbors(S) :
                  N1 # N2 => AddressKey(N1) # AddressKey(N2)

\* C10 as stated holds in the runs in which set_address_from_orbital_parameters
\* returns for every id the address from_6grupa gives it.
KeyedByAssignedAddressIfConstructorsAgree ==
    ConstructorsAgree => ForwardingTablesKeyedByAssignedAddress

\* After a call at time 0, a satellite with two ISL neighbours reaches them over
\* different interfaces under different keys, and one of them uses another
\* interface number for the same ISL.
TwoNeighboursFiled ==
    /\ ncalls > 0 /\ call.time = 0
    /\ \E S \in SatNodes : \E N1, N2 \in Filed(S) :
          /\ N1 # N2
          /\ NeighbourKey(N1) # NeighbourKey(N2)
          /\ forwarding_table[S][NeighbourKey(N1)] # forwarding_table[S][NeighbourKey(N2)]
          /\ sat_neighbor_to_if[<<S, N2>>] # sat_neighbor_to_if[<<N2, S>>]
          /\ Cardinality(DOMAIN forwarding_table[S]) = 2

\* After a call at time 0, a satellite with two ISL neighbours has one entry: both
\* neighbours got the same key and the later one overwrote the earlier.
TwoNeighboursOneKey ==
    /\ ncalls > 0 /\ call.time = 0
    /\ \E S \in SatNodes : \E N1, N2 \in Filed(S) :
          /\ N1 # N2
          /\ NeighbourKey(N1) = NeighbourKey(N2)
          /\ sat_neighbor_to_if[<<S, N1>>] # sat_neighbor_to_if[<<S, N2>>]
          /\ Cardinality(DOMAIN forwarding_table[S]) = 1

\* After a call at time 0, a satellite with an ISL neighbour has an empty table:
\* the constructor raised for the neighbour.
NeighbourNotFiled ==
    /\ ncalls > 0 /\ call.time = 0
    /\ \E S \in SatNodes :
          /\ IslNeighbors(S) # {}
          /\ forwarding_table[S] = EmptyMap

-----------------------------------------------------------------------------
(* Both resolvers when topology.get_satellites() raises (specification     *)
(* SpecSatellitesFailure).                                                 *)

\* The shortest-path resolver has returned {}; every call of the topological
\* resolver has returned a new {}, never prev_fstate, and has given no satellite
\* an address or a forwarding-table entry.
GetSatellitesFailureReturnsEmpty ==
    /\ pc = "done" => fstate = EmptyMap
    /\ ncalls > 0 =>
          /\ ret = Len(heap)
          /\ \A i \in 1..Len(heap) : heap[i] = EmptyMap
          /\ sixgrupa_addr = EmptyMap
          /\ \A s \in SatIds : forwarding_table[s] = EmptyMap
    /\ Len(heap) = ncalls

\* On a graph with three linked satellites, a call at time 1000 that asked to reuse
\* the object of the first call has returned another, empty object.
ReuseRefusedAfterFailure ==
    /\ ncalls = 2
    /\ SatNodes = SatIds
    /\ call.time = 1000 /\ ~call.changed /\ call.prev = 1
    /\ ret = 2
    /\ pc = "done"

-----------------------------------------------------------------------------
(* Properties of a recomputing call of the topological resolver            *)
(* (specification SpecTopoRoute).                                          *)

\* The last call has computed the mapping it returned.
Recomputed ==
    /\ ncalls > 0
    /\ SatNodes # {}
    /\ ~topo_reuses(call.time, call.prev, call.changed)

\* The neighbours of s that start a minimum-weight ISL path from s to e.
PathSecondNodes(R, s, e) ==
    {h \in IslNeighbors(s) :
        R[h][e] < Inf /\ EdgeWeight(graph_edges, s, h) + R[h][e] = R[s][e]}

\* C11: in the mapping of a recomputing call, for every satellite node S and ground
\* station G with a best exit satellite E (least total, then least id): the entry
\* is ("GSL", G) when E = S, and otherwise the interface sat_neighbor_to_if[(S, H)]
\* of an ISL neighbour H that is the second node of a minimum-weight path S -> E.
C11_TopoEntry ==
    Recomputed =>
        \A R \in {ShortestIsl} : \A s \in SatNodes, g \in GsIdx :
            Exits(R, s, g) # {} =>
                \A e \in {SelectedExit(R, s, g)} :
                \A k \in {<<s, GroundStations[g]>>} :
                    /\ k \in DOMAIN heap[ret]
                    /\ e = s => heap[ret][k] = <<"GSL", GroundStations[g]>>
                    /\ e # s =>
                          \E H \in PathSecondNodes(R, s, e) :
                              heap[ret][k] = <<"IF", sat_neighbor_to_if[<<s, H>>]>>

\* A satellite with two shortest paths to its exit, over different interfaces, sends
\* over one of them, while the exit itself has the direct entry; the exit is the
\* better of two satellites in range.
C11_Witness ==
    /\ Recomputed
    /\ \E s \in SatNodes, g \in GsIdx :
          /\ Cardinality(Exits(ShortestIsl, s, g)) >= 2
          /\ \E e \in SatNodes \ {s} :
                /\ e = SelectedExit(ShortestIsl, s, g)
                /\ Cardinality(PathSecondNodes(ShortestIsl, s, e)) = 2
                /\ heap[ret][<<s, GroundStations[g]>>][1] = "IF"
                /\ heap[ret][<<s, GroundStations[g]>>][2] = 1
                /\ heap[ret][<<e, GroundStations[g]>>] = <<"GSL", GroundStations[g]>>

\* C12: the mapping of a recomputing call has a key (x, y) only for a satellite node
\* x of the graph and a ground station y with a satellite of the graph in range
\* that x reaches over ISLs; no value is the sentinel (-1, -1, -1), and no key
\* starts with a ground station.
C12_TopoKeys ==
    Recomputed =>
        \A R \in {ShortestIsl} : \A k \in DOMAIN heap[ret] :
            /\ k[1] \in SatNodes
            /\ k[1] \notin GsIdSet
            /\ \E g \in GsIdx : k[2] = GroundStations[g] /\ Exits(R, k[1], g) # {}
            /\ heap[ret][k] # DropSentinel

\* The graph holds the ground stations too; one satellite has an entry for a ground
\* station and none for the other although a satellite is in range of it, and
\* another satellite has no entry for a ground station that has entries.
C12_Witness ==
    /\ Recomputed
    /\ GsIdSet \subseteq graph_nodes
    /\ \E s \in SatNodes :
          /\ <<s, GroundStations[1]>> \in DOMAIN heap[ret]
          /\ <<s, GroundStations[2]>> \notin DOMAIN heap[ret]
          /\ Visible(2) # {}
    /\ \E s \in SatNodes : \E k \in DOMAIN heap[ret] :
          k[2] = GroundStations[1] /\ <<s, GroundStations[1]>> \notin DOMAIN heap[ret]

-----------------------------------------------------------------------------
(* Properties of get_path (specifications SpecGetPath, SpecGetPathFair).   *)

\* The chain of next hops from gp_src toward gp_dst, read off forward_state, one hop
\* longer: a chain stays as it is once it ends at gp_dst, at a node without an
\* entry, or at a node it has passed before.
Hop(p) ==
    LET c == p[Len(p)]
    IN  IF \/ c = gp_dst
           \/ <<c, gp_dst>> \notin DOMAIN forward_state
           \/ \E i \in 1..(Len(p) - 1) : p[i] = c
        THEN p
        ELSE Append(p, forward_state[<<c, gp_dst>>])

\* Four hops, each taken from the value the one before has produced.
Hop4(p) ==
    CHOOSE r \in {Hop(d) : d \in {Hop(c) : c \in {Hop(b) : b \in {Hop(p)}}}} : TRUE
Hop16(p) ==
    CHOOSE r \in {Hop4(d) : d \in {Hop4(c) : c \in {Hop4(b) : b \in {Hop4(p)}}}} : TRUE
Hop64(p) ==
    CHOOSE r \in {Hop16(d) : d \in {Hop16(c) : c \in {Hop16(b) : b \in {Hop16(p)}}}} : TRUE
Hop256(p) ==
    CHOOSE r \in {Hop64(d) : d \in {Hop64(c) : c \in {Hop64(b) : b \in {Hop64(p)}}}} : TRUE

\* The whole chain, for the forwarding states of up to 256 entries met here.
FullChain == Hop256(<<gp_src>>)

\* The chain comes back to a node it has passed before it reaches gp_dst.
Revisits(ch) == \E i, j \in 1..Len(ch) : i < j /\ ch[i] = ch[j]

\* The chain reaches gp_dst without passing a node twice.
ReachesDst(ch) == ch[Len(ch)] = gp_dst /\ ~Revisits(ch)

\* The chain ends at a node other than gp_dst that has no entry.
BreaksOff(ch) ==
    /\ ch[Len(ch)] # gp_dst
    /\ <<ch[Len(ch)], gp_dst>> \notin DOMAIN forward_state

\* C13: get_path terminates for every forward_state, src and dst, and it returns
\* None when the chain of next hops from src revisits a node before reaching dst.
C13_TerminatesAndDetectsLoops ==
    /\ <>(gp_pc = "done")
    /\ [](gp_pc = "done" => \A ch \in {FullChain} : Revisits(ch) => gp_ret = NoneResult)

\* The fixture {(0,2): 1, (1,2): 0} with src = 0 and dst = 2 has returned None
\* after two rounds of the loop.
C13_Witness ==
    /\ gp_pc = "done"
    /\ forward_state = [k \in {<<0, 2>>, <<1, 2>>} |-> 1 - k[1]]
    /\ gp_src = 0 /\ gp_dst = 2
    /\ path = <<0, 1>>
    /\ Revisits(FullChain)
    /\ gp_ret = NoneResult

\* C14: a loop-free chain that reaches dst is returned when it has at most 200
\* nodes, and None is returned when it has more.
C14_MaxHops ==
    gp_pc = "done" =>
        \A ch \in {FullChain} :
            ReachesDst(ch) =>
                /\ Len(ch) <= 200 => gp_ret = PathResult(ch)
                /\ Len(ch) > 200 => gp_ret = NoneResult

\* A chain of 201 nodes that reaches dst has been answered with None.
C14_Witness ==
    /\ gp_pc = "done"
    /\ ReachesDst(FullChain)
    /\ Len(FullChain) = 201
    /\ Len(path) = 201
    /\ gp_ret = NoneResult

\* A path from gp_src to gp_dst along forward_state, without a repeated node.
IsForwardPath(p) ==
    /\ Len(p) >= 1
    /\ p[1] = gp_src
    /\ p[Len(p)] = gp_dst
    /\ \A i, j \in 1..Len(p) : i # j => p[i] # p[j]
    /\ \A i \in 1..(Len(p) - 1) :
          /\ <<p[i], gp_dst>> \in DOMAIN forward_state
          /\ p[i + 1] = forward_state[<<p[i], gp_dst>>]

\* C15: the result of get_path is None or a list that starts at src, ends at dst,
\* repeats no node and follows forward_state hop by hop; it is [src] when
\* src = dst; it is None when a node reached before dst has no entry.
C15_PathShape ==
    gp_pc = "done" =>
        /\ gp_ret.is_none \/ IsForwardPath(gp_ret.path)
        /\ gp_ret.is_none => gp_ret = NoneResult
        /\ gp_src = gp_dst => gp_ret = PathResult(<<gp_src>>)
        /\ BreaksOff(FullChain) => gp_ret = NoneResult

\* A path of three nodes has been returned although forward_state holds entries
\* for other destinations as well.
C15_Witness ==
    /\ gp_pc = "done"
    /\ ~gp_ret.is_none
    /\ Len(gp_ret.path) = 3
    /\ IsForwardPath(gp_ret.path)
    /\ \E k \in DOMAIN forward_state : k[2] # gp_dst

-----------------------------------------------------------------------------
(* Graphs without a satellite node, and a shortest-path computation that   *)
(* raises (specification SpecVariants).                                    *)

\* The topological resolver has been called and has returned heap[ret].
TopoReturned == ncalls > 0

\* C16: when the graph holds no satellite node, every resolver returns the empty
\* mapping, whatever the ground stations and the visibility lists are; no
\* ground-station-to-ground-station sentinel entry is emitted.
C16_NoSatelliteEmpty ==
    SatNodes = {} =>
        /\ pc = "done" => fstate = EmptyMap
        /\ TopoReturned => heap[ret] = EmptyMap
        /\ dyn_pc = "done" => dyn_fstate = EmptyMap

\* The resolver of network_state and the topological resolver do return the empty
\* mapping on every graph without a satellite node, and the resolver of
\* dynamic_state on the graph without any node.
C16_FilteringResolversEmpty ==
    SatNodes = {} =>
        /\ pc = "done" => fstate = EmptyMap
        /\ TopoReturned => heap[ret] = EmptyMap
        /\ (dyn_pc = "done" /\ graph_nodes = {}) => dyn_fstate = EmptyMap

\* The graph holds the ground-station nodes and no satellite; the resolver of
\* network_state and the topological resolver have returned the empty mapping, and
\* the resolver of dynamic_state a mapping with the sentinel for both pairs of
\* ground stations.
C16_Witness ==
    /\ SatNodes = {}
    /\ graph_nodes = GsIdSet
    /\ pc = "done" /\ fstate = EmptyMap
    /\ TopoReturned /\ heap[ret] = EmptyMap
    /\ dyn_pc = "done"
    /\ DOMAIN dyn_fstate = {<<100, 200>>, <<200, 100>>}
    /\ dyn_fstate[<<100, 200>>] = DropSentinel
    /\ dyn_fstate[<<200, 100>>] = DropSentinel

\* The keys the topological resolver is left with when it has no distance matrix:
\* a satellite node and a ground station that has this very satellite in range.
DirectKeys ==
    {k \in SatNodes \X GsIdSet :
        \E g \in GsIdx : GroundStations[g] = k[2] /\ \E x \in Visible(g) : x[2] = k[1]}

\* C17 as stated: when the all-pairs computation raises, the shortest-path and the
\* topological resolver alike return an empty forwarding state.
C17_Original ==
    (fw_raises /\ SatNodes # {}) =>
        /\ pc = "done" => fstate = EmptyMap
        /\ TopoReturned => heap[ret] = EmptyMap

\* C17: when the all-pairs computation raises, the shortest-path resolver returns
\* an empty forwarding state without any partial entry; the topological resolver
\* goes on without the distance matrix and returns the entry ("GSL", G) for
\* exactly the pairs of a satellite node and a ground station G that has this
\* satellite in range. Either way the call returns.
C17_RaiseHandled ==
    (fw_raises /\ SatNodes # {}) =>
        /\ pc = "done" => fstate = EmptyMap /\ dist_cache = EmptyMap
        /\ dyn_pc = "done" => dyn_fstate = EmptyMap
        /\ TopoReturned =>
              /\ DOMAIN heap[ret] = DirectKeys
              /\ \A k \in DirectKeys : heap[ret][k] = <<"GSL", k[2]>>

\* The computation has raised on a graph of two linked satellites with both ground
\* stations in range of a satellite: the shortest-path resolver has returned the
\* empty mapping, and the topological one a mapping that has the direct entries
\* and lacks the entry of the satellite that would reach the station over the ISL.
C17_Witness ==
    /\ fw_raises
    /\ pc = "done" /\ fstate = EmptyMap
    /\ TopoReturned
    /\ graph_edges # <<>>
    /\ \E s \in SatNodes, o \in SatNodes :
          /\ <<s, GroundStations[1]>> \in DOMAIN heap[ret]
          /\ <<o, GroundStations[1]>> \notin DOMAIN heap[ret]
          /\ o # s
    /\ \E k \in DOMAIN heap[ret] : k[2] = GroundStations[2]

-----------------------------------------------------------------------------
(* Properties of _calculate_bandwidth_state (specification SpecBandwidth). *)

\* num_total_nodes
TotalNodes == number_of_satellites + Len(GroundStations)

\* The positions of the first N records of the list.
FirstRecords ==
    {i \in 1..Len(list_gsl_interfaces_info) : i <= TotalNodes}

\* Each of the first N records has an id and a bandwidth, and no two share an id.
DistinctIds ==
    /\ \A i \in FirstRecords :
          DOMAIN list_gsl_interfaces_info[i] = {"id", "aggregate_max_bandwidth"}
    /\ \A i, j \in FirstRecords :
          list_gsl_interfaces_info[i].id = list_gsl_interfaces_info[j].id => i = j

\* C18: for every record r among the first N records, records with pairwise
\* distinct ids, bandwidth[r.id] = r.aggregate_max_bandwidth, also when the list
\* is shorter than N: every supplied record keeps its value.
C18_BandwidthOneToOne ==
    (bw_pc = "done" /\ DistinctIds) =>
        \A i \in FirstRecords :
            LET r == list_gsl_interfaces_info[i]
            IN  /\ r.id \in DOMAIN bandwidth_state
                /\ bandwidth_state[r.id] = r.aggregate_max_bandwidth

\* One satellite and two ground stations, and a list of the single record of node
\* 2 with bandwidth 1: the mapping gives node 2 the bandwidth 0 of the position 2
\* the list does not have.
C18_Witness ==
    /\ bw_pc = "done"
    /\ number_of_satellites = 1
    /\ list_gsl_interfaces_info = <<[id |-> 2, aggregate_max_bandwidth |-> 1]>>
    /\ bandwidth_state = (1 :> 0) @@ (2 :> 0)

-----------------------------------------------------------------------------
(* Properties of the shortest-path resolver under a renaming of the ids    *)
(* (specification SpecRenaming).                                           *)

\* A forwarding state with the node ids of its keys and of its next hops renamed
\* and its interface indices as they are.
RenamedFstate(f) ==
    LET keys == RenamePairKeys(ren_sat, ren_gs, f)
    IN  [k \in DOMAIN keys |->
            <<RenameId(ren_sat, ren_gs, keys[k][1]), keys[k][2], keys[k][3]>>]

\* C19: renaming the satellite ids by a strictly increasing map and the
\* ground-station ids by an injective map, with the two id sets disjoint and the
\* graph, interface map and visibility lists renamed alike, yields exactly the
\* renamed fstate with the interface indices unchanged.
C19_RenamingInvariance ==
    (pc = "done" /\ ren_pc = "done") => ren_fstate = RenamedFstate(fstate)

\* Three linked satellites renamed to ids that are no positions of a matrix, the
\* ground stations renamed with their order reversed, and a station in range of two
\* satellites at equal total distance from the third: the entries of the mapping
\* go over ISLs, to the station and between stations.
C19_Witness ==
    /\ pc = "done" /\ ren_pc = "done"
    /\ ren_sat[30] = 40 /\ ren_sat[10] # 10
    /\ ren_gs[100] > ren_gs[200]
    /\ \E k \in DOMAIN fstate :
          k[1] \in SatIds /\ fstate[k][1] \in SatIds
    /\ \E k \in DOMAIN fstate :
          k[1] \in SatIds /\ fstate[k][1] \in GsIdSet
    /\ \E k \in DOMAIN fstate :
          k[1] \in GsIdSet /\ fstate[k] # DropSentinel
    /\ \E g \in GsIdx, s \in SatNodes : \E x, y \in Visible(g) :
          /\ x[2] # y[2] /\ x[2] \in SatNodes /\ y[2] \in SatNodes
          /\ dist_cache[<<s, GroundStations[g]>>] < Inf
          /\ \A R \in {ShortestIsl} :
                /\ R[s][x[2]] + x[1] = R[s][y[2]] + y[1]
                /\ R[s][x[2]] + x[1] = dist_cache[<<s, GroundStations[g]>>]

-----------------------------------------------------------------------------
(* Properties of the topological address (specification SpecAddress).      *)

\* C20: for every satellite id, 0, 1, 50 and 100 among them, the address a given
\* to that id is read back from its integer form: from_integer(to_integer(a)) = a.
C20_AddressRoundTrip ==
    addr_pc = "done" =>
        /\ addr_trip[1] = from_6grupa(addr_sat_id)
        /\ addr_trip[2] = to_integer(addr_trip[1])
        /\ addr_trip[3] = addr_trip[1]

\* The address of satellite 100 has been serialized to an integer that differs from
\* the id, and the address read back is a satellite address of shell 0, subnet 0.
C20_Witness ==
    /\ addr_pc = "done"
    /\ addr_sat_id = 100
    /\ addr_trip[2] # addr_sat_id
    /\ addr_trip[3].is_satellite
    /\ addr_trip[3].shell_id = 0
    /\ addr_trip[3].subnet_index = 0
    /\ addr_trip[3] = from_6grupa(100)

-----------------------------------------------------------------------------
(* Properties of generate_plus_grid_isls (specification SpecIslBuilder).   *)

\* The satellite at position k of orbit o.
SatOf(o, k) == isl_args.idx_offset + o * isl_args.n_sats_per_orbit + k

\* C21: generate_plus_grid_isls returns [] when n_orbits < 3 or
\* n_sats_per_orbit < 3; otherwise it returns 2 * n_orbits * n_sats_per_orbit
\* links: first the ring link of every satellite k of every orbit to satellite
\* (k+1) mod n_sats_per_orbit of that orbit, then the link of every satellite j of
\* every orbit i to satellite (j + isl_shift) mod n_sats_per_orbit of orbit
\* (i+1) mod n_orbits; every endpoint is in
\* [idx_offset, idx_offset + n_orbits * n_sats_per_orbit).
C21_PlusGrid ==
    isl_pc = "done" =>
        LET n == isl_args.n_orbits
            m == isl_args.n_sats_per_orbit
        IN  IF n < 3 \/ m < 3 THEN list_isls = <<>>
            ELSE /\ Len(list_isls) = 2 * n * m
                 /\ \A o \in 0..(n - 1), k \in 0..(m - 1) :
                       /\ list_isls[o * m + k + 1] = <<SatOf(o, k), SatOf(o, (k + 1) % m)>>
                       /\ list_isls[n * m + o * m + k + 1] =
                              <<SatOf(o, k),
                                SatOf((o + 1) % n, (k + isl_args.isl_shift) % m)>>
                 /\ \A p \in 1..Len(list_isls) : \A e \in 1..2 :
                       /\ list_isls[p][e] >= isl_args.idx_offset
                       /\ list_isls[p][e] < isl_args.idx_offset + n * m

\* The 3 x 3 grid of test_generate_plus_grid_isls_with_shift at offset 10: the ring
\* of orbit 0 closes with (12, 10), and the last satellite of the last orbit is
\* linked to the first satellite of orbit 0.
C21_Witness ==
    /\ isl_pc = "done"
    /\ isl_args = [n_orbits |-> 3, n_sats_per_orbit |-> 3, isl_shift |-> 1,
                   idx_offset |-> 10]
    /\ Len(list_isls) = 18
    /\ list_isls[3] = <<12, 10>>
    /\ list_isls[18] = <<18, 10>>

-----------------------------------------------------------------------------
(* Ties between exit satellites in the shortest-path resolver              *)
(* (specification Spec).                                                   *)

\* The exit candidates of s toward ground station g at the least total distance.
TiedExits(R, s, g) ==
    {x \in Exits(R, s, g) : R[s][x[2]] + x[1] = SetMin(RouteTotals(R, s, g))}

\* The satellite among the candidates C that the visibility list of g names first.
FirstSeen(g, C) ==
    LET pos(x) == CHOOSE i \in 1..Len(gs_in_range[g]) : gs_in_range[g][i] = x
    IN  (CHOOSE x \in C : \A y \in C : pos(x) <= pos(y))[2]

\* The satellite with the least id among the candidates C.
LeastId(C) == SetMin({x[2] : x \in C})

\* The entry of s toward ground station g is the one that exit satellite e gives:
\* the ground station itself when e is s, else a neighbour that starts a
\* minimum-weight path to e.
EntryUsesExit(R, s, g, e) ==
    LET hop == fstate[<<s, GroundStations[g]>>][1]
    IN  IF e = s THEN hop = GroundStations[g] ELSE hop \in PathSecondNodes(R, s, e)

\* C22 as stated: among candidates of equal least total distance, the one the
\* visibility list names first is selected.
C22_Original ==
    pc = "done" =>
        \A R \in {ShortestIsl} : \A s \in SatNodes, g \in GsIdx :
            Exits(R, s, g) # {} =>
                EntryUsesExit(R, s, g, FirstSeen(g, TiedExits(R, s, g)))

\* C22: among candidates of equal least total distance, the one with the least
\* satellite id is selected, wherever the visibility list names it.
C22_TieGoesToLeastId ==
    pc = "done" =>
        \A R \in {ShortestIsl} : \A s \in SatNodes, g \in GsIdx :
            Exits(R, s, g) # {} =>
                EntryUsesExit(R, s, g, LeastId(TiedExits(R, s, g)))

\* Two candidates tie, the visibility list names the one with the greater id first,
\* and the entry is the one of the candidate with the least id and not the one of
\* the candidate named first.
C22_Witness ==
    /\ pc = "done"
    /\ \A R \in {ShortestIsl} : \E s \in SatNodes, g \in GsIdx :
          /\ Cardinality(TiedExits(R, s, g)) >= 2
          /\ FirstSeen(g, TiedExits(R, s, g)) # LeastId(TiedExits(R, s, g))
          /\ EntryUsesExit(R, s, g, LeastId(TiedExits(R, s, g)))
          /\ ~EntryUsesExit(R, s, g, FirstSeen(g, TiedExits(R, s, g)))

-----------------------------------------------------------------------------
(* An interface map that lacks an entry (specification                     *)
(* SpecMissingInterface).                                                  *)

\* The ISL between a and b has both its interfaces in the map.
BothInterfaces(a, b) ==
    <<a, b>> \in DOMAIN sat_neighbor_to_if /\ <<b, a>> \in DOMAIN sat_neighbor_to_if

\* C23: when the interface map lacks (S, N) or (N, S) for the selected next hop N,
\* the entry of (S, G) is absent or the sentinel (-1, -1, -1), never a real next
\* hop with a -1 interface; every other entry is computed as usual.
C23_MissingInterfaceDrops ==
    pc = "done" =>
        \A k \in DOMAIN fstate :
            k[1] \in SatNodes =>
                \/ fstate[k] = DropSentinel
                \/ fstate[k] = <<k[2], number_isls[k[1]], 0>>
                \/ /\ fstate[k][1] \in IslNeighbors(k[1])
                   /\ BothInterfaces(k[1], fstate[k][1])
                   /\ fstate[k][2] = sat_neighbor_to_if[<<k[1], fstate[k][1]>>]
                   /\ fstate[k][3] = sat_neighbor_to_if[<<fstate[k][1], k[1]>>]

\* The map lacks the interface of satellite 10 toward satellite 20, and the entry
\* of satellite 10 toward a ground station names satellite 20 as the next hop with
\* the local interface -1 and the real remote interface.
C23_Witness ==
    /\ pc = "done"
    /\ <<10, 20>> \notin DOMAIN sat_neighbor_to_if
    /\ <<20, 10>> \in DOMAIN sat_neighbor_to_if
    /\ \E g \in GsIdx :
          fstate[<<10, GroundStations[g]>>] = <<20, -1, sat_neighbor_to_if[<<20, 10>>]>>

-----------------------------------------------------------------------------
(* A visibility list shorter than the list of ground stations              *)
(* (specification SpecShortVisibility).                                    *)

\* The ground stations whose index is beyond the visibility list.
BeyondList == {GroundStations[g] : g \in {i \in GsIdx : i > Len(gs_in_range)}}

\* The visibility list padded with empty lists, one for each such ground station.
PaddedVisibility ==
    gs_in_range \o [i \in 1..(Len(GroundStations) - Len(gs_in_range)) |-> <<>>]

\* C24: with a visibility list shorter than the list of ground stations the
\* resolver returns; a ground station beyond the list has no (satellite, GS) entry
\* and no entry as the source of a GS-to-GS pair, and every other entry is the one
\* computed with the list padded with empty lists.
C24_ShortVisibilityList ==
    (pc = "done" /\ SatNodes # {}) =>
        \A padded \in {calculate_fstate_shortest_path(graph_nodes, graph_edges,
                           sat_neighbor_to_if, number_isls, GroundStations,
                           PaddedVisibility).fstate} :
            /\ \A k \in DOMAIN fstate : k[1] \notin BeyondList
            /\ \A k \in DOMAIN fstate : k[1] \in SatNodes => k[2] \notin BeyondList
            /\ DOMAIN fstate \subseteq DOMAIN padded
            /\ \A k \in DOMAIN fstate : fstate[k] = padded[k]
            /\ \A k \in DOMAIN padded :
                  (k[1] \notin BeyondList /\ k[2] \notin BeyondList) => k \in DOMAIN fstate

\* The visibility list holds the list of the first ground station only, with two
\* satellites in it: the satellites have their entries toward that ground station,
\* one over an ISL, and the second ground station has none.
C24_Witness ==
    /\ pc = "done"
    /\ Len(gs_in_range) = 1
    /\ Len(gs_in_range[1]) = 2
    /\ BeyondList = {GroundStations[2]}
    /\ \E s \in SatNodes : fstate[<<s, GroundStations[1]>>][1] \in SatNodes
    /\ \E s \in SatNodes : fstate[<<s, GroundStations[1]>>][1] = GroundStations[1]
    /\ fstate[<<GroundStations[1], GroundStations[2]>>] = DropSentinel
    /\ <<GroundStations[2], GroundStations[1]>> \notin DOMAIN fstate

-----------------------------------------------------------------------------
(* Ticks through the entry point (specification SpecTicks).                *)

\* C25: at every tick the graph-changed flag passed to the resolver is true, and
\* the fstate returned is a new object computed from the topology and visibility of
\* that tick, never the object of the tick before, whether or not anything changed.
C25_EveryTickRecomputes ==
    [][ncalls' = ncalls + 1 =>
          /\ call'.changed
          /\ call'.prev = (IF ncalls = 0 THEN 0 ELSE ret)
          /\ ret' # call'.prev
          /\ ret' \notin 1..Len(heap)
          /\ heap'[ret'] \in (IF SatNodes = {} THEN {EmptyMap} ELSE TopoComputed)]_vars

\* Two ticks, the second at a time other than 0 and fed the object of the first; the
\* visibility is as it was at the first tick, and the second object is another
\* object with the same entries.
C25_Witness ==
    /\ ncalls = 2
    /\ call.time # 0
    /\ call.prev = 1
    /\ ret = 2
    /\ heap[2] = heap[1]
    /\ heap[2] # EmptyMap

-----------------------------------------------------------------------------
(* What a call of the topological resolver leaves alone (SpecTopo).        *)

\* C26: a call with a time other than 0 leaves the address and the forwarding table
\* of every satellite, the graph and the interface map as they were, whether it
\* returns the previous object or recomputes; addresses and forwarding tables are
\* written only by a call at time 0, and the renumbering step changes nothing.
C26_NonZeroTimeFrame ==
    [][(ncalls' = ncalls + 1 /\ call'.time # 0) =>
          /\ UNCHANGED <<sixgrupa_addr, forwarding_table>>
          /\ UNCHANGED <<graph_nodes, graph_edges, sat_neighbor_to_if>>]_vars

\* A first call at a time other than 0 has recomputed with a ground station in
\* range, so the renumbering step ran, and no satellite has an address or a
\* forwarding-table entry.
C26_Witness ==
    /\ ncalls = 1
    /\ call.time # 0
    /\ SatNodes # {}
    /\ ret = 1
    /\ \E g \in GsIdx : gs_in_range[g] # <<>>
    /\ sixgrupa_addr = EmptyMap
    /\ \A s \in SatIds : forwarding_table[s] = EmptyMap

-----------------------------------------------------------------------------
(* Delivery along the next hops of the shortest-path fstate (SpecDelivery). *)

\* The entry of satellite s toward ground station id G is a next hop.
HasNextHop(s, G) == <<s, G>> \in DOMAIN fstate /\ fstate[<<s, G>>] # DropSentinel

\* The nodes met from s toward G by following next hops, at most n hops, as long
\* as there is a next hop to follow.
RECURSIVE NextHopWalk(_, _, _)
NextHopWalk(s, G, n) ==
    IF s = G \/ n = 0 \/ ~HasNextHop(s, G) THEN <<s>>
    ELSE <<s>> \o NextHopWalk(fstate[<<s, G>>][1], G, n - 1)

\* C27: in a computed fstate, for every satellite S and ground station G with a
\* next hop, every satellite met by following next hops from S has a next hop
\* toward G, the recorded distance to G falls strictly at every hop between
\* satellites, and G is reached within as many hops as there are satellites; and
\* get_path on the next hops returns a path from S to G, not None.
C27_LoopFreeDelivery ==
    /\ pc = "done" =>
          \A S \in SatNodes, G \in GsIdSet :
              HasNextHop(S, G) =>
                  \A walk \in {NextHopWalk(S, G, Cardinality(SatNodes))} :
                      /\ walk[Len(walk)] = G
                      /\ \A i \in 1..(Len(walk) - 1) :
                            /\ walk[i] \in SatNodes
                            /\ HasNextHop(walk[i], G)
                            /\ i > 1 => dist_cache[<<walk[i], G>>]
                                           < dist_cache[<<walk[i - 1], G>>]
    /\ (gp_pc = "done" /\ pc = "done") =>
          /\ ~gp_ret.is_none
          /\ gp_ret.path = NextHopWalk(gp_src, gp_dst, Cardinality(SatNodes))

\* get_path has returned a path of three satellites and the ground station: two
\* hops between satellites, then the GSL.
C27_Witness ==
    /\ pc = "done"
    /\ gp_pc = "done"
    /\ ~gp_ret.is_none
    /\ Len(gp_ret.path) = 4
    /\ gp_ret.path[4] = gp_dst
    /\ dist_cache[<<gp_ret.path[3], gp_dst>>] < dist_cache[<<gp_ret.path[2], gp_dst>>]
    /\ dist_cache[<<gp_ret.path[2], gp_dst>>] < dist_cache[<<gp_ret.path[1], gp_dst>>]

-----------------------------------------------------------------------------
(* Ground station to ground station against satellite to ground station    *)
(* (specification Spec).                                                   *)

\* The satellites in the visibility list of the ground station at index g.
VisibleSats(g) == {x[2] : x \in Visible(g)}

\* C28: for distinct ground stations src and dst with an entry, when the entry is
\* (E, 0, k) and not the sentinel, E is in the visibility list of src, k is the
\* number of ISLs of E and the entry of E toward dst is not the sentinel; when
\* the entry is the sentinel, every satellite of the graph visible to src has the
\* sentinel, or no entry, toward dst.
C28_GsEntryMatchesSatEntry ==
    pc = "done" =>
        \A a \in GsIdx, b \in GsIdx :
            \A key \in {<<GroundStations[a], GroundStations[b]>>} :
                (a # b /\ key \in DOMAIN fstate) =>
                    IF fstate[key] # DropSentinel
                    THEN /\ fstate[key][1] \in VisibleSats(a)
                         /\ fstate[key][2] = 0
                         /\ fstate[key][3] = number_isls[fstate[key][1]]
                         /\ HasNextHop(fstate[key][1], key[2])
                    ELSE \A s \in VisibleSats(a) \cap SatNodes : ~HasNextHop(s, key[2])

\* Ground station 100 enters at a satellite that has ISLs and hands over to
\* another satellite toward 200.
C28_Witness ==
    /\ pc = "done"
    /\ <<100, 200>> \in DOMAIN fstate
    /\ fstate[<<100, 200>>] # DropSentinel
    /\ fstate[<<100, 200>>][3] > 0
    /\ fstate[<<fstate[<<100, 200>>][1], 200>>][1] \in SatNodes

\* Ground station 100 sees a satellite of the graph and has the sentinel toward 200,
\* which is in range of another satellite.
C28_SentinelCase ==
    /\ pc = "done"
    /\ <<100, 200>> \in DOMAIN fstate
    /\ fstate[<<100, 200>>] = DropSentinel
    /\ VisibleSats(1) \cap SatNodes # {}
    /\ VisibleSats(2) \cap SatNodes # {}

-----------------------------------------------------------------------------
(* The topological resolver against the shortest-path resolver             *)
(* (specification SpecAgreement).                                          *)

\* The neighbours of s that start a minimum-weight ISL path from s to e.
MinWeightFirstHops(R, s, e) ==
    {n \in IslNeighbors(s) : EdgeWeight(graph_edges, s, n) + R[n][e] = R[s][e]}

\* C29: on one topology, for every satellite S of the graph and ground station G,
\* (S, G) is a key of the topological fstate exactly when the shortest-path entry
\* of (S, G) is not the sentinel; the topological value is ("GSL", G) exactly when
\* the shortest-path next hop is G; otherwise it is the local interface toward a
\* neighbour that starts a minimum-weight path to the same exit satellite, and
\* the local interface of the shortest-path entry when there is one such neighbour.
C29_TopologicalAgreesWithShortestPath ==
    (pc = "done" /\ ncalls = 1) =>
        \A R \in {ShortestIsl}, topo \in {heap[ret]} :
            \A S \in SatNodes, g \in GsIdx :
                \A key \in {<<S, GroundStations[g]>>} :
                    /\ key \in DOMAIN topo <=> HasNextHop(S, key[2])
                    /\ key \in DOMAIN topo =>
                          /\ topo[key] = <<"GSL", key[2]>> <=> fstate[key][1] = key[2]
                          /\ fstate[key][1] # key[2] =>
                                \A firsts \in {MinWeightFirstHops(R, S, SelectedExit(R, S, g))} :
                                    /\ topo[key] \in {<<"IF", sat_neighbor_to_if[<<S, n>>]>> :
                                                         n \in firsts}
                                    /\ Cardinality(firsts) = 1 =>
                                          topo[key][2] = fstate[key][2]

\* Both resolvers have run; satellite 10 has no route to ground station 200, hands
\* over to 100 itself, and some satellite reaches a ground station over an ISL
\* through the interface the shortest-path entry names.
C29_Witness ==
    /\ pc = "done" /\ ncalls = 1
    /\ <<10, 200>> \notin DOMAIN heap[ret]
    /\ <<10, 100>> \in DOMAIN heap[ret]
    /\ heap[ret][<<10, 100>>] = <<"GSL", 100>>
    /\ \E key \in DOMAIN heap[ret] :
          /\ heap[ret][key][1] = "IF"
          /\ fstate[key][1] \in SatNodes
          /\ heap[ret][key][2] = fstate[key][2]

-----------------------------------------------------------------------------
(* The resolver of dynamic_state against the resolver of network_state     *)
(* (specification SpecShortVisibility).                                    *)

\* C30: for a graph whose nodes are all satellites of the topology and the full
\* interface map, the function of dynamic_state and the function of
\* network_state return the same fstate, also for the graph without nodes, for
\* ground stations that see no satellite and for a visibility list shorter than
\* the list of ground stations.
C30_SameFstate ==
    (pc = "done" /\ dyn_pc = "done") => dyn_fstate = fstate

\* Both have run on three satellites with a visibility list as long as the list
\* of ground stations; a satellite reaches a ground station over an ISL and ground
\* station 100 enters toward 200 at a satellite other than the first of its list.
C30_Witness ==
    /\ pc = "done" /\ dyn_pc = "done"
    /\ SatNodes = SatIds
    /\ Len(gs_in_range) = Len(GroundStations)
    /\ \E s \in SatNodes : <<s, 200>> \in DOMAIN dyn_fstate /\ dyn_fstate[<<s, 200>>][1] \in SatNodes
    /\ <<100, 200>> \in DOMAIN dyn_fstate
    /\ dyn_fstate[<<100, 200>>] # DropSentinel
    /\ dyn_fstate[<<100, 200>>][1] # gs_in_range[1][1][2]

\* Both have run on the graph without nodes and both returned {}.
C30_EmptyGraphCase ==
    pc = "done" /\ dyn_pc = "done" /\ graph_nodes = {} /\ dyn_fstate = EmptyMap

\* Both have run with a visibility list that names only the first ground station.
C30_ShortListCase ==
    /\ pc = "done" /\ dyn_pc = "done" /\ Len(gs_in_range) = 1
    /\ <<100, 200>> \in DOMAIN dyn_fstate /\ <<200, 100>> \notin DOMAIN dyn_fstate

====
